---------------------------- MODULE Spec2Model ----------------------------
(***************************************************************************)
(* pretty-gpx, city rendering mode: the acquisition / caching / synthesis  *)
(* pipelines for roads, rivers and points of interest, the batched         *)
(* Overpass query they share, and the on-disk pickle caches they read and  *)
(* write; the GPX track the segments of a file are appended to; the poster *)
(* cache of the city page, its stats panel and the handlers of the page.   *)
(*                                                                         *)
(* Python functions are operators from the state they read (the query, the *)
(* disk) and their arguments to a record holding the state they leave      *)
(* behind, their return value and the exception they raised ("none" when   *)
(* they returned).  State written before an exception is raised stays      *)
(* written.  The actions apply these operators to the variables.           *)
(***************************************************************************)
EXTENDS Integers, Sequences, FiniteSets, TLC

VARIABLES
    disk,       \* cache file path -> file contents (absent / corrupt / pickled value)
    query,      \* the OverpassQuery of the current run
    run,        \* number of queries constructed so far; also the version of the data
                \* the Overpass server answers with during this run (the number of
                \* segments appended, of events handled, where there is no query)
    family,     \* the feature pipeline the caller runs
    pc,         \* position of the caller in the current run
    err,        \* exception that ended the current run ("none" when none did)
    road_precision,   \* argument of prepare_download_city_roads in this run
    prepared,   \* list returned by prepare_download_city_roads in this run
    args,       \* arguments the caller gave to process_city_roads in this run
    ret,        \* value returned by the process function of this run
    trace,      \* what the process function of this run did: the sub-query results
                \* it read, whether it ran the synthesis, whether it wrote the cache
    disk0,      \* disk when the query of this run was constructed
    prev,       \* the run before this one: its family, inputs, outcome, return value
    calls,      \* the calls made on the query of this run, in order
    diagonal_m, \* bounds.diagonal_m of the extent of the model
    sample,     \* the inputs drawn for a pure function, and its results once applied
    gpx_track,  \* the GpxTrack that append_track_to_gpx_track fills
    ui_manager, \* the UiManagerCity of the city page: the poster cache it holds
    page        \* the city page: its input fields, its notifications, its plot

vars == <<disk, query, run, family, pc, err, road_precision, prepared, args, ret,
          trace, disk0, prev, calls, diagonal_m, sample, gpx_track, ui_manager, page>>

-----------------------------------------------------------------------------
(* Bounds of the model *)

\* number of queries (pipeline runs) a behaviour constructs
MaxRuns == 2

-----------------------------------------------------------------------------
(* Python values *)

\* the longest list of candidates the proximity filter is given
MaxFiltered == 2

\* the longest list of candidates the suppression and the truncation are given
MaxRanked == 3

\* number of segments of a GPX file, and of points of a segment
MaxSegments == 2

MaxPoints == 2

\* number of events of the city page a behaviour handles
MaxEvents == 2

None == "None"

\* the elements of a Python list, as a set
Elems(s) == {s[i] : i \in DOMAIN s}

\* all sub-lists of s that keep the order of s
RECURSIVE SubSeqs(_)
SubSeqs(s) ==
    IF s = <<>> THEN {<<>>}
    ELSE LET rest == SubSeqs(Tail(s))
         IN  rest \cup {<<Head(s)>> \o t : t \in rest}

-----------------------------------------------------------------------------
(* The disk: pickle files *)

ROADS_CACHE == "roads"
RIVERS_CACHE == "rivers"
CITY_POINTS_OF_INTEREST_CACHE == "city_pois"
FORESTS_CACHE == "forests"

CacheNames == {ROADS_CACHE, RIVERS_CACHE, CITY_POINTS_OF_INTEREST_CACHE, FORESTS_CACHE}

\* GpxDataCacheHandler.get_path(bounds): one path per cache name for the extent
get_path(name) == <<"data", name, "extent.pkl">>

Paths == {get_path(n) : n \in CacheNames}

NoFile == [kind |-> "absent"]
CorruptFile == [kind |-> "corrupt"]
PickleFile(value) == [kind |-> "pickle", value |-> value]

\* os.path.isfile(path)
isfile(d, path) == d[path].kind # "absent"

\* read_pickle(path): the unpickled value, or the exception raised
read_pickle(d, path) ==
    CASE d[path].kind = "pickle" -> [err |-> "none", value |-> d[path].value]
      [] d[path].kind = "corrupt" -> [err |-> "CorruptCacheError", value |-> None]
      [] OTHER -> [err |-> "FileNotFoundError", value |-> None]

\* write_pickle(path, value)
write_pickle(d, path, value) == [d EXCEPT ![path] = PickleFile(value)]

-----------------------------------------------------------------------------
(* OverpassQuery: the batch of sub-queries of one run *)

\* OverpassQuery()
NewOverpassQuery ==
    [queries |-> {},       \* array names registered with add_overpass_query
     cached |-> <<>>,      \* cache name -> cache file, from add_cached_result
     launches |-> 0,       \* calls of launch_queries
     requests |-> 0,       \* network requests issued
     results |-> <<>>,     \* array name -> result of the launched request
     late |-> {}]          \* array names registered after a launch

\* query.add_overpass_query(array_name, ...)
add_overpass_query(q, array_name) ==
    IF array_name \in q.queries
    THEN [query |-> q, err |-> "DuplicateNameError"]
    ELSE [query |-> [q EXCEPT !.queries = @ \cup {array_name},
                              !.late = IF q.launches > 0 THEN @ \cup {array_name} ELSE @],
          err |-> "none"]

\* query.add_cached_result(name, cache_file=...)
add_cached_result(q, name, cache_file) ==
    [q EXCEPT !.cached = (name :> cache_file) @@ @]

\* query.is_cached(name)
is_cached(q, name) == name \in DOMAIN q.cached

\* query.get_cache_file(name)
get_cache_file(q, name) == q.cached[name]

\* what the Overpass server answers for one sub-query, at data version v
OverpassResult(array_name, v) == [array_name |-> array_name, version |-> v]

\* query.launch_queries(): one request for all the registered sub-queries
launch_queries(q, v) ==
    [q EXCEPT !.launches = @ + 1,
              !.requests = IF q.queries = {} THEN @ ELSE @ + 1,
              !.results = [n \in q.queries |-> OverpassResult(n, v)]]

\* query.get_query_result(array_name)
get_query_result(q, array_name) ==
    CASE array_name \notin q.queries -> [err |-> "UnknownNameError", value |-> None]
      [] array_name \notin DOMAIN q.results -> [err |-> "NotLaunchedError", value |-> None]
      [] OTHER -> [err |-> "none", value |-> q.results[array_name]]

\* the first exception of a list of outcomes, "none" when there is none
RECURSIVE FirstErr(_)
FirstErr(errs) ==
    IF errs = <<>> THEN "none"
    ELSE IF Head(errs) # "none" THEN Head(errs) ELSE FirstErr(Tail(errs))

-----------------------------------------------------------------------------
(* Roads: rendering_modes/city/data/roads.py *)

HIGHWAY == "HIGHWAY"
SECONDARY_ROAD == "SECONDARY_ROAD"
STREET == "STREET"
ACCESS_ROAD == "ACCESS_ROAD"

CityRoadType == {HIGHWAY, SECONDARY_ROAD, STREET, ACCESS_ROAD}

\* Low is a level better than the priority of every road type
ROAD_PRECISION_LEVEL_low_below_highway ==
    ("Low" :> -1) @@ ("Medium" :> 1) @@ ("High" :> 2) @@ ("Very High" :> 3)

ROAD_PRECISION_LEVEL ==
    ("Low" :> 0) @@ ("Medium" :> 1) @@ ("High" :> 2) @@ ("Very High" :> 3)

\* the priorities of SECONDARY_ROAD and STREET changed places
ROAD_TYPE_DATA_street_before_secondary ==
    << [road_type |-> HIGHWAY, priority |-> 0, query_name |-> "highway"],
       [road_type |-> SECONDARY_ROAD, priority |-> 2, query_name |-> "secondary_roads"],
       [road_type |-> STREET, priority |-> 1, query_name |-> "street"],
       [road_type |-> ACCESS_ROAD, priority |-> 3, query_name |-> "access_roads"] >>

\* the items of the dict, in insertion order
ROAD_TYPE_DATA ==
    << [road_type |-> HIGHWAY, priority |-> 0, query_name |-> "highway"],
       [road_type |-> SECONDARY_ROAD, priority |-> 1, query_name |-> "secondary_roads"],
       [road_type |-> STREET, priority |-> 2, query_name |-> "street"],
       [road_type |-> ACCESS_ROAD, priority |-> 3, query_name |-> "access_roads"] >>

\* ROAD_TYPE_DATA[road_type]
RoadTypeData(road_type) ==
    CHOOSE item \in Elems(ROAD_TYPE_DATA) : item.road_type = road_type

\* sorted(items, key=priority): a stable sort, by insertion
RECURSIVE sorted_by_priority(_)
sorted_by_priority(items) ==
    IF items = <<>> THEN <<>>
    ELSE LET n == Len(items)
             x == items[n]
             front == sorted_by_priority(SubSeq(items, 1, n - 1))
             k == Cardinality({i \in DOMAIN front : front[i].priority <= x.priority})
         IN  SubSeq(front, 1, k) \o <<x>> \o SubSeq(front, k + 1, Len(front))

\* lines 56-57: the condition asserted when the module is loaded
ROAD_TYPE_DATA_is_sorted ==
    [i \in DOMAIN ROAD_TYPE_DATA |-> ROAD_TYPE_DATA[i].road_type]
        = [i \in DOMAIN ROAD_TYPE_DATA |-> sorted_by_priority(ROAD_TYPE_DATA)[i].road_type]

\* the road types of a priority strictly better than x
get_city_roads_with_priority_strictly_better_than(x) ==
    LET kept == SelectSeq(ROAD_TYPE_DATA, LAMBDA item : item.priority < x)
    IN  [i \in DOMAIN kept |-> kept[i].road_type]

get_city_roads_with_priority_better_than(x) ==
    LET kept == SelectSeq(ROAD_TYPE_DATA, LAMBDA item : item.priority <= x)
    IN  [i \in DOMAIN kept |-> kept[i].road_type]

\* get_ways_coordinates_from_results(result): the coordinates of the ways of a result
get_ways_coordinates_from_results(result) ==
    [ways_of |-> result.array_name, version |-> result.version]

\* the cached road types are not taken out of the list: everything is downloaded
\* again as soon as one road type is missing
roads_not_in_cache_all_again(roads_to_plot, roads_types_cache) ==
    IF \A i \in DOMAIN roads_to_plot : roads_to_plot[i] \in roads_types_cache
    THEN <<>>
    ELSE roads_to_plot

\* prepare, lines 92-97: the road types still to download, given the cached ones
roads_not_in_cache(roads_to_plot, roads_types_cache) ==
    IF \A i \in DOMAIN roads_to_plot : roads_to_plot[i] \in roads_types_cache
    THEN <<>>
    ELSE SelectSeq(roads_to_plot, LAMBDA key : key \notin roads_types_cache)

\* prepare, lines 99-107: one sub-query per road type to download
RECURSIVE add_roads_queries(_, _)
add_roads_queries(q, roads_to_plot) ==
    IF roads_to_plot = <<>> THEN [query |-> q, err |-> "none"]
    ELSE LET r == add_overpass_query(q, RoadTypeData(Head(roads_to_plot)).query_name)
         IN  IF r.err # "none" THEN r
             ELSE add_roads_queries(r.query, Tail(roads_to_plot))

prepare_download_city_roads(q, d, precision) ==
    LET cache_pkl == get_path(ROADS_CACHE)
    IN  IF precision \notin DOMAIN ROAD_PRECISION_LEVEL
        THEN [query |-> q, ret |-> None, err |-> "AssertionError"]
        ELSE
        LET roads_to_plot ==
                get_city_roads_with_priority_better_than(ROAD_PRECISION_LEVEL[precision])
        IN  IF isfile(d, cache_pkl)
            THEN LET rd == read_pickle(d, cache_pkl)
                 IN  IF rd.err # "none"
                     THEN [query |-> q, ret |-> None, err |-> rd.err]
                     ELSE
                     LET q1 == add_cached_result(q, ROADS_CACHE, cache_pkl)
                         todo == roads_not_in_cache(roads_to_plot, DOMAIN rd.value)
                         r == add_roads_queries(q1, todo)
                     IN  [query |-> r.query,
                          ret |-> IF r.err = "none" THEN todo ELSE None,
                          err |-> r.err]
            ELSE LET r == add_roads_queries(q, roads_to_plot)
                 IN  [query |-> r.query,
                      ret |-> IF r.err = "none" THEN roads_to_plot ELSE None,
                      err |-> r.err]

\* a dict restricted to its own keys plus one assignment: roads[key] = value
DictSet(roads, key, value) == (key :> value) @@ roads

\* the merge starts from an empty dict even when the query holds the cache
load_cached_roads_forgotten(q, d) == [err |-> "none", value |-> <<>>]

\* process, lines 121-125: the roads the merge starts from
load_cached_roads(q, d) ==
    IF is_cached(q, ROADS_CACHE)
    THEN read_pickle(d, get_cache_file(q, ROADS_CACHE))
    ELSE [err |-> "none", value |-> <<>>]

\* process, lines 127-130: the downloaded road types assigned into roads, in order
RECURSIVE assign_downloaded_roads(_, _, _)
assign_downloaded_roads(q, roads, city_roads_downloaded) ==
    IF city_roads_downloaded = <<>> THEN [err |-> "none", value |-> roads]
    ELSE LET city_road_type == Head(city_roads_downloaded)
             result == get_query_result(q, RoadTypeData(city_road_type).query_name)
         IN  IF result.err # "none" THEN [err |-> result.err, value |-> None]
             ELSE assign_downloaded_roads(
                      q,
                      DictSet(roads, city_road_type,
                              get_ways_coordinates_from_results(result.value)),
                      Tail(city_roads_downloaded))

\* the whole merged dict is returned, not the requested part of it
select_roads_to_return_everything(roads, roads_to_plot) ==
    [err |-> "none", value |-> roads]

\* process, lines 134 and 140: {road_type: roads[road_type] for road_type in roads_to_plot}
select_roads_to_return(roads, roads_to_plot) ==
    IF Elems(roads_to_plot) \subseteq DOMAIN roads
    THEN [err |-> "none", value |-> [road_type \in Elems(roads_to_plot) |-> roads[road_type]]]
    ELSE [err |-> "KeyError", value |-> None]

\* no exception: an empty dict is written and returned
roads_not_cached_empty_dict(q, d) ==
    [query |-> q, disk |-> write_pickle(d, get_path(ROADS_CACHE), <<>>), ret |-> <<>>,
     err |-> "none"]

\* process, lines 143-144: nothing downloaded and nothing cached
roads_not_cached(q, d) ==
    [query |-> q, disk |-> d, ret |-> None, err |-> "FileNotFoundError"]

process_city_roads(q, d, city_roads_downloaded, precision) ==
    LET roads_to_plot ==
            get_city_roads_with_priority_better_than(ROAD_PRECISION_LEVEL[precision])
    IN  IF Len(city_roads_downloaded) > 0
        THEN LET loaded == load_cached_roads(q, d)
                 merged == assign_downloaded_roads(q, loaded.value, city_roads_downloaded)
             IN  IF loaded.err # "none"
                 THEN [query |-> q, disk |-> d, ret |-> None, err |-> loaded.err]
                 ELSE IF merged.err # "none"
                 THEN [query |-> q, disk |-> d, ret |-> None, err |-> merged.err]
                 ELSE
                 LET cache_pkl == get_path(ROADS_CACHE)
                     d1 == write_pickle(d, cache_pkl, merged.value)
                     q1 == add_cached_result(q, ROADS_CACHE, cache_pkl)
                     roads_to_return == select_roads_to_return(merged.value, roads_to_plot)
                 IN  [query |-> q1, disk |-> d1,
                      ret |-> roads_to_return.value, err |-> roads_to_return.err]
        ELSE IF is_cached(q, ROADS_CACHE)
        THEN LET loaded == read_pickle(d, get_cache_file(q, ROADS_CACHE))
             IN  IF loaded.err # "none"
                 THEN [query |-> q, disk |-> d, ret |-> None, err |-> loaded.err]
                 ELSE LET roads_to_return == select_roads_to_return(loaded.value, roads_to_plot)
                      IN  [query |-> q, disk |-> d,
                           ret |-> roads_to_return.value, err |-> roads_to_return.err]
        ELSE roads_not_cached(q, d)

-----------------------------------------------------------------------------
(* Rivers: rendering_modes/city/data/rivers.py *)

RIVERS_WAYS_ARRAY_NAME == "rivers_ways"
RIVERS_RELATIONS_ARRAY_NAME == "rivers_relations"
RIVERS_LINE_WAYS_ARRAY_NAME == "rivers_line_ways"
STREAMS_LINE_WAYS_ARRAY_NAME == "stream_line_ways"

RIVER_LINE_WIDTH_M == 15

MAX_DISTANCE == 10000
MIN_DISTANCE == 2000
MAX_WIDTH_M == 4
MIN_WIDTH_M == 2

(* Real numbers of the stream ramp are exact fractions over one denominator,   *)
(* (MAX_DISTANCE - MIN_DISTANCE)^2: the value x is held as x * RampDen.        *)
RampDen == (MAX_DISTANCE - MIN_DISTANCE) * (MAX_DISTANCE - MIN_DISTANCE)

\* a float literal or an integer, as a fraction over RampDen
Float(n) == n * RampDen

(* np.rad2deg(width_m / EARTH_RADIUS_M): an angle in degrees.  The conversion  *)
(* is linear, so the angle is held exactly by the metres it was converted      *)
(* from, in the unit rad2deg(1 / EARTH_RADIUS_M); an angle is not a length and *)
(* is never compared with one.                                                 *)
rad2deg_over_earth_radius(width_m) == [degrees_of_metres |-> width_m]

\* width_deg > 0
DegPositive(width_deg) == width_deg.degrees_of_metres > 0

RIVER_LINE_WIDTH == rad2deg_over_earth_radius(Float(RIVER_LINE_WIDTH_M))

\* the ramp grows with the diagonal instead of shrinking
stream_transition_inverted(domain_diagonal) ==
    LET factor == (domain_diagonal - MIN_DISTANCE) * (domain_diagonal - MIN_DISTANCE)
        width_m == Float(MIN_WIDTH_M) + (MAX_WIDTH_M - MIN_WIDTH_M) * factor
    IN  [width |-> rad2deg_over_earth_radius(width_m), alpha |-> factor]

\* lines 96-102: the transition between MIN_DISTANCE and MAX_DISTANCE
stream_transition(domain_diagonal) ==
    LET factor == (MAX_DISTANCE - domain_diagonal) * (MAX_DISTANCE - domain_diagonal)
        width_m == Float(MIN_WIDTH_M) + (MAX_WIDTH_M - MIN_WIDTH_M) * factor
    IN  [width |-> rad2deg_over_earth_radius(width_m), alpha |-> factor]

\* the two thresholds are compared strictly
get_stream_visualization_strict(domain_diagonal) ==
    IF domain_diagonal > MAX_DISTANCE
    THEN [width |-> rad2deg_over_earth_radius(Float(0)), alpha |-> Float(0)]
    ELSE IF domain_diagonal < MIN_DISTANCE
    THEN [width |-> rad2deg_over_earth_radius(Float(MAX_WIDTH_M)), alpha |-> Float(1)]
    ELSE stream_transition(domain_diagonal)

get_stream_visualization(domain_diagonal) ==
    IF domain_diagonal >= MAX_DISTANCE
    THEN [width |-> rad2deg_over_earth_radius(Float(0)), alpha |-> Float(0)]
    ELSE IF domain_diagonal <= MIN_DISTANCE
    THEN [width |-> rad2deg_over_earth_radius(Float(MAX_WIDTH_M)), alpha |-> Float(1)]
    ELSE stream_transition(domain_diagonal)

\* get_polygons_from_relations(results=...)
get_polygons_from_relations(result) == <<[polygon_of |-> "relation", result |-> result]>>

\* get_polygons_from_closed_ways(result.ways)
get_polygons_from_closed_ways(result) == <<[polygon_of |-> "closed_way", result |-> result]>>

\* get_rivers_polygons_from_lines(api_result=..., width=...)
get_rivers_polygons_from_lines(result, width) ==
    <<[polygon_of |-> "buffered_line", result |-> result, width |-> width]>>

\* create_patch_collection_from_polygons(polygons)
create_patch_collection_from_polygons(polygons) == [patches |-> polygons]

PolygonAlpha(polygons, alpha) == [polygons |-> polygons, alpha |-> alpha]

\* the stream sub-query is added whatever the ramp yields
rivers_queries_streams_always(diagonal) ==
    <<RIVERS_RELATIONS_ARRAY_NAME, RIVERS_WAYS_ARRAY_NAME, RIVERS_LINE_WAYS_ARRAY_NAME,
      STREAMS_LINE_WAYS_ARRAY_NAME>>

\* prepare, lines 41-75: the sub-queries of a cache miss, in the order they are added
rivers_queries(diagonal) ==
    <<RIVERS_RELATIONS_ARRAY_NAME, RIVERS_WAYS_ARRAY_NAME, RIVERS_LINE_WAYS_ARRAY_NAME>>
    \o (IF DegPositive(get_stream_visualization(diagonal).width)
        THEN <<STREAMS_LINE_WAYS_ARRAY_NAME>> ELSE <<>>)

\* a list of sub-queries added one after the other
RECURSIVE add_queries(_, _)
add_queries(q, array_names) ==
    IF array_names = <<>> THEN [query |-> q, err |-> "none"]
    ELSE LET r == add_overpass_query(q, Head(array_names))
         IN  IF r.err # "none" THEN r ELSE add_queries(r.query, Tail(array_names))

prepare_download_city_rivers(q, d, diagonal) ==
    LET cache_pkl == get_path(RIVERS_CACHE)
    IN  IF isfile(d, cache_pkl)
        THEN [query |-> add_cached_result(q, RIVERS_CACHE, cache_pkl), ret |-> None,
              err |-> "none"]
        ELSE LET r == add_queries(q, rivers_queries(diagonal))
             IN  [query |-> r.query, ret |-> None, err |-> r.err]

\* the polygons of the center-lines are appended instead of prepended
rivers_layer_lines_last(rivers_relation_results, rivers_way_results, rivers_line_results) ==
    LET rivers_relations == get_polygons_from_relations(rivers_relation_results)
        rivers_ways == get_polygons_from_closed_ways(rivers_way_results)
        rivers_lines_polygons ==
            get_rivers_polygons_from_lines(rivers_line_results, RIVER_LINE_WIDTH)
        rivers == (rivers_relations \o rivers_ways) \o rivers_lines_polygons
    IN  PolygonAlpha(create_patch_collection_from_polygons(rivers), Float(1))

\* process, lines 119-127: the rivers layer
rivers_layer(rivers_relation_results, rivers_way_results, rivers_line_results) ==
    LET rivers_relations == get_polygons_from_relations(rivers_relation_results)
        rivers_ways == get_polygons_from_closed_ways(rivers_way_results)
        rivers_lines_polygons ==
            get_rivers_polygons_from_lines(rivers_line_results, RIVER_LINE_WIDTH)
        rivers == rivers_lines_polygons \o (rivers_relations \o rivers_ways)
    IN  PolygonAlpha(create_patch_collection_from_polygons(rivers), Float(1))

\* process, lines 114-135: the synthesis of a cache miss
synthesize_rivers(q, diagonal) ==
    LET rel == get_query_result(q, RIVERS_RELATIONS_ARRAY_NAME)
        way == get_query_result(q, RIVERS_WAYS_ARRAY_NAME)
        line == get_query_result(q, RIVERS_LINE_WAYS_ARRAY_NAME)
        e3 == FirstErr(<<rel.err, way.err, line.err>>)
        stream == get_stream_visualization(diagonal)
    IN  IF e3 # "none" THEN [err |-> e3, value |-> None, read |-> {}]
        ELSE IF ~DegPositive(stream.width)
        THEN [err |-> "none",
              value |-> <<rivers_layer(rel.value, way.value, line.value)>>,
              read |-> {RIVERS_RELATIONS_ARRAY_NAME, RIVERS_WAYS_ARRAY_NAME,
                        RIVERS_LINE_WAYS_ARRAY_NAME}]
        ELSE LET sl == get_query_result(q, STREAMS_LINE_WAYS_ARRAY_NAME)
             IN  IF sl.err # "none" THEN [err |-> sl.err, value |-> None, read |-> {}]
                 ELSE [err |-> "none",
                       value |-> <<rivers_layer(rel.value, way.value, line.value),
                                   PolygonAlpha(
                                       create_patch_collection_from_polygons(
                                           get_rivers_polygons_from_lines(sl.value, stream.width)),
                                       stream.alpha)>>,
                       read |-> {RIVERS_RELATIONS_ARRAY_NAME, RIVERS_WAYS_ARRAY_NAME,
                                 RIVERS_LINE_WAYS_ARRAY_NAME, STREAMS_LINE_WAYS_ARRAY_NAME}]

\* the cache hit writes the value it read back to the cache
rivers_from_cache_rewritten(q, d) ==
    LET loaded == read_pickle(d, get_cache_file(q, RIVERS_CACHE))
    IN  [query |-> q,
         disk |-> IF loaded.err = "none"
                  THEN write_pickle(d, get_path(RIVERS_CACHE), loaded.value) ELSE d,
         ret |-> loaded.value, err |-> loaded.err,
         read |-> {}, synthesized |-> FALSE, wrote |-> loaded.err = "none"]

\* process, lines 110-112: the cache hit
rivers_from_cache(q, d) ==
    LET loaded == read_pickle(d, get_cache_file(q, RIVERS_CACHE))
    IN  [query |-> q, disk |-> d, ret |-> loaded.value, err |-> loaded.err,
         read |-> {}, synthesized |-> FALSE, wrote |-> FALSE]

process_city_rivers(q, d, diagonal) ==
    IF is_cached(q, RIVERS_CACHE)
    THEN rivers_from_cache(q, d)
    ELSE LET syn == synthesize_rivers(q, diagonal)
             cache_pkl == get_path(RIVERS_CACHE)
         IN  IF syn.err # "none"
             THEN [query |-> q, disk |-> d, ret |-> None, err |-> syn.err,
                   read |-> syn.read, synthesized |-> FALSE, wrote |-> FALSE]
             ELSE [query |-> add_cached_result(q, RIVERS_CACHE, cache_pkl),
                   disk |-> write_pickle(d, cache_pkl, syn.value),
                   ret |-> syn.value, err |-> "none",
                   read |-> syn.read, synthesized |-> TRUE, wrote |-> TRUE]

-----------------------------------------------------------------------------
(* Points of interest: rendering_modes/city/data/city_pois.py *)

CITY_POINTS_OF_INTEREST_WAYS_ARRAY_NAME == "city_pois_ways"
CITY_POINTS_OF_INTEREST_RELATIONS_ARRAY_NAME == "city_pois_relations"

(* A tag key is <<word, rest>>, the key being word followed by rest: a regular  *)
(* expression "^(w1|w2|...)" matches the key when its word is one of the wi.    *)
IMPORTANCE_BASIC_TAG_PATTERN ==
    {"heritage", "source", "contact", "architect", "opening_hours", "historic",
     "phone", "email", "website", "importance", "image", "wikimedia_commons"}

IMPORTANCE_NAME_TAG_PATTERN == {"name:", "alt_name", "short_name"}

\* pattern.match(key)
match(pattern, key) == key[1] \in pattern

\* tags.get(key): the value, or None
tags_get(tags, key) == IF key \in DOMAIN tags THEN tags[key] ELSE None

\* lines 160-165: the evidence counted over the keys of the tags
RECURSIVE count_tag_evidence(_)
count_tag_evidence(keys) ==
    IF keys = {} THEN 0
    ELSE LET key == CHOOSE k \in keys : TRUE
             rest == count_tag_evidence(keys \ {key})
         IN  IF match(IMPORTANCE_BASIC_TAG_PATTERN, key) THEN rest + 1
             ELSE IF match(IMPORTANCE_NAME_TAG_PATTERN, key) THEN rest + 2
             ELSE rest

\* the bonuses of the building and of the amenity add up
building_bonus_cumulative(tags) ==
    (IF tags_get(tags, <<"building", "">>) = "cathedral" THEN 5 ELSE 0)
    + (IF tags_get(tags, <<"amenity", "">>) = "theatre" THEN 5 ELSE 0)
    + (IF tags_get(tags, <<"building", "">>) = "palace" THEN 10 ELSE 0)
    + (IF tags_get(tags, <<"building", "">>) = "castle" THEN 3 ELSE 0)

\* lines 167-174: the bonus of the building or the amenity
building_bonus(tags) ==
    IF tags_get(tags, <<"building", "">>) = "cathedral" THEN 5
    ELSE IF tags_get(tags, <<"amenity", "">>) = "theatre" THEN 5
    ELSE IF tags_get(tags, <<"building", "">>) = "palace" THEN 10
    ELSE IF tags_get(tags, <<"building", "">>) = "castle" THEN 3
    ELSE 0

\* a count of 5 is discarded too
get_importance_score_strict(tags) ==
    LET count == count_tag_evidence(DOMAIN tags) + building_bonus(tags)
    IN  IF count > 5 THEN count ELSE -1

\* the score, or -1 for None
get_importance_score(tags) ==
    LET count == count_tag_evidence(DOMAIN tags) + building_bonus(tags)
    IN  IF count >= 5 THEN count ELSE -1

\* np.mean(poly_lonlat, axis=0), on a grid of metres where the means are whole
\* numbers
RECURSIVE SumCoord(_, _)
SumCoord(poly, k) == IF poly = <<>> THEN 0 ELSE Head(poly)[k] + SumCoord(Tail(poly), k)

\* CandidateCityPoi(...), with center_lonlat from __post_init__
CandidateCityPoi(name, importance, poly_lonlat) ==
    [category |-> "CITY_POI_DEFAULT", name |-> name, importance |-> importance,
     poly_lonlat |-> poly_lonlat,
     center_lonlat |-> <<SumCoord(poly_lonlat, 1) \div Len(poly_lonlat),
                         SumCoord(poly_lonlat, 2) \div Len(poly_lonlat)>>]

\* lines 85-93 and 96-106: the candidates of the elements of one result
RECURSIVE candidates_of(_)
candidates_of(elements) ==
    IF elements = <<>> THEN <<>>
    ELSE LET e == Head(elements)
             importance == get_importance_score(e.tags)
         IN  (IF importance # -1 /\ Len(e.lonlat) > 0
              THEN <<CandidateCityPoi(e.name, importance, e.lonlat)>>
              ELSE <<>>) \o candidates_of(Tail(elements))

\* squared distance in metres between two points of the grid
SqDist(p, q) == (p[1] - q[1]) * (p[1] - q[1]) + (p[2] - q[2]) * (p[2] - q[2])

\* the least element of a non-empty set of numbers
SetMin(S) == CHOOSE x \in S : \A y \in S : x <= y

\* np.min(gpx.get_distances_m(targets_lon_lat=poly)), squared
min_sq_distance_to_track(poly, track) ==
    SetMin({SqDist(poly[i], track[j]) : i \in DOMAIN poly, j \in DOMAIN track})

\* the tiers start at 70 and at 30
proximity_ths_m_inclusive(importance) ==
    IF importance >= 70 THEN 800 ELSE IF importance >= 30 THEN 500 ELSE 150

\* lines 186-191: the threshold of the importance tier
proximity_ths_m(importance) ==
    IF importance > 70 THEN 800 ELSE IF importance > 30 THEN 500 ELSE 150

filter_close_gpx(city_pois, track) ==
    SelectSeq(city_pois,
              LAMBDA city_poi :
                  min_sq_distance_to_track(city_poi.poly_lonlat, track)
                      < proximity_ths_m(city_poi.importance)
                        * proximity_ths_m(city_poi.importance))

\* an ascending sort turned around: candidates of equal importance change places
RECURSIVE sorted_by_importance_ties_reversed(_)
sorted_by_importance_ties_reversed(city_pois) ==
    IF city_pois = <<>> THEN <<>>
    ELSE LET n == Len(city_pois)
             x == city_pois[n]
             front == sorted_by_importance_ties_reversed(SubSeq(city_pois, 1, n - 1))
             k == Cardinality({i \in DOMAIN front : front[i].importance > x.importance})
         IN  SubSeq(front, 1, k) \o <<x>> \o SubSeq(front, k + 1, Len(front))

\* sorted(city_pois, key=lambda x: x.importance, reverse=True): a stable sort,
\* by insertion
RECURSIVE sorted_by_importance(_)
sorted_by_importance(city_pois) ==
    IF city_pois = <<>> THEN <<>>
    ELSE LET n == Len(city_pois)
             x == city_pois[n]
             front == sorted_by_importance(SubSeq(city_pois, 1, n - 1))
             k == Cardinality({i \in DOMAIN front : front[i].importance >= x.importance})
         IN  SubSeq(front, 1, k) \o <<x>> \o SubSeq(front, k + 1, Len(front))

\* dist <= 0.02 * diagonal_m: a candidate at the threshold is too close
nms_too_close_inclusive(p, q, diagonal) == SqDist(p, q) <= (diagonal * diagonal) \div 2500

\* dist < 0.02 * diagonal_m, on the squares: 2500 * dist^2 < diagonal_m^2, which
\* for whole numbers is dist^2 <= (diagonal_m^2 - 1) \div 2500
nms_too_close(p, q, diagonal) == SqDist(p, q) <= (diagonal * diagonal - 1) \div 2500

\* the distances are not masked by keep and the first candidate is not exempt:
\* a candidate is compared with itself
RECURSIVE nms_keep_self_compared(_, _, _)
nms_keep_self_compared(sorted, n, diagonal) ==
    IF n = 0 THEN {}
    ELSE LET keep == nms_keep_self_compared(sorted, n - 1, diagonal)
         IN  IF \E j \in 1..n :
                    nms_too_close(sorted[n].center_lonlat, sorted[j].center_lonlat, diagonal)
             THEN keep
             ELSE keep \cup {n}

\* lines 209-214: the indices kept among the first n of the sorted candidates
RECURSIVE nms_keep(_, _, _)
nms_keep(sorted, n, diagonal) ==
    IF n = 0 THEN {}
    ELSE LET keep == nms_keep(sorted, n - 1, diagonal)
         IN  IF n # 1 /\ \E j \in keep :
                    nms_too_close(sorted[n].center_lonlat, sorted[j].center_lonlat, diagonal)
             THEN keep
             ELSE keep \cup {n}

\* the sort puts the later of two candidates of equal importance first
nms_city_pois_ties_reversed(city_pois, diagonal) ==
    IF Len(city_pois) = 0 THEN <<>>
    ELSE LET sorted == sorted_by_importance_ties_reversed(city_pois)
             keep == nms_keep(sorted, Len(sorted), diagonal)
             idx == SelectSeq([i \in 1..Len(sorted) |-> i], LAMBDA i : i \in keep)
         IN  [i \in DOMAIN idx |-> sorted[idx[i]]]

nms_city_pois(city_pois, diagonal) ==
    IF Len(city_pois) = 0 THEN <<>>
    ELSE LET sorted == sorted_by_importance(city_pois)
             keep == nms_keep(sorted, Len(sorted), diagonal)
             idx == SelectSeq([i \in 1..Len(sorted) |-> i], LAMBDA i : i \in keep)
         IN  [i \in DOMAIN idx |-> sorted[idx[i]]]

\* the candidates are truncated as they come
take_n_best_unsorted(city_pois, n) ==
    SubSeq(city_pois, 1, IF n < Len(city_pois) THEN n ELSE Len(city_pois))

take_n_best(city_pois, n) ==
    LET sorted == sorted_by_importance(city_pois)
    IN  SubSeq(sorted, 1, IF n < Len(sorted) THEN n ELSE Len(sorted))

ScatterPoint(city_poi) ==
    [name |-> city_poi.name, lat |-> city_poi.center_lonlat[2],
     lon |-> city_poi.center_lonlat[1], category |-> city_poi.category]

\* the elements the server answers with for the two POI sub-queries, at the data
\* version of the result: ways and relations with their tags and their geometry
\* on a grid of metres
PoiElements(result) ==
    LET v == result.version
        key(w) == <<w, "">>
    IN  IF result.array_name = CITY_POINTS_OF_INTEREST_WAYS_ARRAY_NAME
        THEN << [name |-> <<"Palais", v>>,
                 tags |-> (key("building") :> "palace") @@ (<<"name:", "fr">> :> "x")
                          @@ (<<"name:", "en">> :> "x") @@ (key("wikimedia_commons") :> "x"),
                 lonlat |-> << <<100, 100>>, <<120, 100>> >>],
                [name |-> <<"Theatre", v>>,
                 tags |-> (key("amenity") :> "theatre") @@ (key("alt_name") :> "x"),
                 lonlat |-> << <<150, 100>> >>],
                [name |-> <<"Musee", v>>,
                 tags |-> (key("tourism") :> "museum"),
                 lonlat |-> << <<300, 50>> >>],
                [name |-> <<"Chateau", v>>,
                 tags |-> (key("building") :> "castle") @@ (key("heritage") :> "2")
                          @@ (key("website") :> "x") @@ (<<"historic", ":civilization">> :> "x"),
                 lonlat |-> << <<600, 400>> >>] >>
        ELSE << [name |-> <<"Dom", v>>,
                 tags |-> (key("building") :> "cathedral") @@ (key("amenity") :> "theatre")
                          @@ (<<"name:", "de">> :> "x"),
                 lonlat |-> << <<700, 50>>, <<720, 50>> >>],
                [name |-> <<"Ruine", v>>,
                 tags |-> (key("building") :> "palace"),
                 lonlat |-> <<>>] >>

\* gpx_track: the points of the track, on the same grid
GpxTrackPoints == << <<0, 0>>, <<400, 0>>, <<800, 0>> >>

\* the cache file is not looked at: the sub-queries are always registered
prepare_download_city_pois_always(q, d) ==
    LET r == add_queries(q, <<CITY_POINTS_OF_INTEREST_WAYS_ARRAY_NAME,
                              CITY_POINTS_OF_INTEREST_RELATIONS_ARRAY_NAME>>)
    IN  [query |-> r.query, ret |-> None, err |-> r.err]

prepare_download_city_pois(q, d) ==
    LET cache_pkl == get_path(CITY_POINTS_OF_INTEREST_CACHE)
    IN  IF isfile(d, cache_pkl)
        THEN [query |-> add_cached_result(q, CITY_POINTS_OF_INTEREST_CACHE, cache_pkl),
              ret |-> None, err |-> "none"]
        ELSE LET r == add_queries(q, <<CITY_POINTS_OF_INTEREST_WAYS_ARRAY_NAME,
                                       CITY_POINTS_OF_INTEREST_RELATIONS_ARRAY_NAME>>)
             IN  [query |-> r.query, ret |-> None, err |-> r.err]

\* the 6 best are taken before the suppression
select_city_pois_truncate_first(candidates, track, diagonal) ==
    LET close == filter_close_gpx(candidates, track)
        best == take_n_best(close, 6)
        kept == nms_city_pois(best, diagonal)
    IN  [i \in DOMAIN kept |-> ScatterPoint(kept[i])]

\* process, lines 108-122: filter, suppress, truncate, convert
select_city_pois(candidates, track, diagonal) ==
    LET close == filter_close_gpx(candidates, track)
        kept == nms_city_pois(close, diagonal)
        best == take_n_best(kept, 6)
    IN  [i \in DOMAIN best |-> ScatterPoint(best[i])]

\* process, lines 79-122: the synthesis of a cache miss
synthesize_city_pois(q, track, diagonal) ==
    LET res_ways == get_query_result(q, CITY_POINTS_OF_INTEREST_WAYS_ARRAY_NAME)
        res_relations == get_query_result(q, CITY_POINTS_OF_INTEREST_RELATIONS_ARRAY_NAME)
        e2 == FirstErr(<<res_ways.err, res_relations.err>>)
    IN  IF e2 # "none" THEN [err |-> e2, value |-> None, read |-> {}]
        ELSE [err |-> "none",
              value |-> select_city_pois(candidates_of(PoiElements(res_ways.value))
                                             \o candidates_of(PoiElements(res_relations.value)),
                                         track, diagonal),
              read |-> {CITY_POINTS_OF_INTEREST_WAYS_ARRAY_NAME,
                        CITY_POINTS_OF_INTEREST_RELATIONS_ARRAY_NAME}]

\* process, lines 75-77: the cache hit
city_pois_from_cache(q, d) ==
    LET loaded == read_pickle(d, get_cache_file(q, CITY_POINTS_OF_INTEREST_CACHE))
    IN  [query |-> q, disk |-> d, ret |-> loaded.value, err |-> loaded.err,
         read |-> {}, synthesized |-> FALSE, wrote |-> FALSE]

process_city_pois(q, d, track, diagonal) ==
    IF is_cached(q, CITY_POINTS_OF_INTEREST_CACHE)
    THEN city_pois_from_cache(q, d)
    ELSE LET syn == synthesize_city_pois(q, track, diagonal)
             cache_pkl == get_path(CITY_POINTS_OF_INTEREST_CACHE)
         IN  IF syn.err # "none"
             THEN [query |-> q, disk |-> d, ret |-> None, err |-> syn.err,
                   read |-> syn.read, synthesized |-> FALSE, wrote |-> FALSE]
             ELSE [query |-> add_cached_result(q, CITY_POINTS_OF_INTEREST_CACHE, cache_pkl),
                   disk |-> write_pickle(d, cache_pkl, syn.value),
                   ret |-> syn.value, err |-> "none",
                   read |-> syn.read, synthesized |-> TRUE, wrote |-> TRUE]

-----------------------------------------------------------------------------
(* Forests: rendering_modes/city/data/forests.py, a feature pipeline of the    *)
(* same shape as the rivers one                                                *)

FORESTS_ARRAY_NAME == "forests"

prepare_download_city_forests(q, d) ==
    LET cache_pkl == get_path(FORESTS_CACHE)
    IN  IF isfile(d, cache_pkl)
        THEN [query |-> add_cached_result(q, FORESTS_CACHE, cache_pkl), ret |-> None,
              err |-> "none"]
        ELSE LET r == add_queries(q, <<FORESTS_ARRAY_NAME>>)
             IN  [query |-> r.query, ret |-> None, err |-> r.err]

process_city_forests(q, d) ==
    IF is_cached(q, FORESTS_CACHE)
    THEN LET loaded == read_pickle(d, get_cache_file(q, FORESTS_CACHE))
         IN  [query |-> q, disk |-> d, ret |-> loaded.value, err |-> loaded.err]
    ELSE LET res == get_query_result(q, FORESTS_ARRAY_NAME)
             cache_pkl == get_path(FORESTS_CACHE)
         IN  IF res.err # "none"
             THEN [query |-> q, disk |-> d, ret |-> None, err |-> res.err]
             ELSE [query |-> add_cached_result(q, FORESTS_CACHE, cache_pkl),
                   disk |-> write_pickle(d, cache_pkl, <<[forest_of |-> res.value]>>),
                   ret |-> <<[forest_of |-> res.value]>>, err |-> "none"]

-----------------------------------------------------------------------------
(* GPX track: common/gpx/gpx_track.py.  Coordinates and elevations are whole   *)
(* numbers of metres on a grid; list_cumul_dist_km holds the cumulative        *)
(* distance in metres, the factor 1e-3 of line 149 left out of every term.     *)

\* a value that can be None: <<>> is None, <<x>> is the value x
NoValue == <<>>
Value(x) == <<x>>

\* GpxTrack(): the four lists empty, uphill_m 0.0, duration_s None
GpxTrack ==
    [list_lon |-> <<>>, list_lat |-> <<>>, list_ele_m |-> <<>>,
     list_cumul_dist_km |-> <<>>, uphill_m |-> 0, duration_s |-> NoValue]

\* a GPXTrackPoint of gpxpy
GPXTrackPoint(longitude, latitude, elevation) ==
    [longitude |-> longitude, latitude |-> latitude, elevation |-> elevation]

Abs(x) == IF x < 0 THEN -x ELSE x

\* prev_point.distance_3d(point) of gpxpy, on the grid: a distance that is not
\* negative and is zero between equal points
distance_3d(prev_point, point) ==
    Abs(point.longitude - prev_point.longitude)
    + Abs(point.latitude - prev_point.latitude)
    + Abs(point.elevation[1] - prev_point.elevation[1])

\* lines 138-153: the loop over the points from the i-th on; appended tells of
\* every point gone through whether it was appended
RECURSIVE append_points(_, _, _, _, _, _, _)
append_points(t, track_points, i, has_started, prev_cumul_dist_km, prev_point, appended) ==
    IF i > Len(track_points) THEN [gpx_track |-> t, appended |-> appended]
    ELSE IF track_points[i].elevation = NoValue /\ ~has_started
    THEN append_points(t, track_points, i + 1, has_started, prev_cumul_dist_km, prev_point,
                       Append(appended, FALSE))
    ELSE LET elevation == IF track_points[i].elevation = NoValue
                          THEN Value(t.list_ele_m[Len(t.list_ele_m)])
                          ELSE track_points[i].elevation
             point == [track_points[i] EXCEPT !.elevation = elevation]
             cumul == IF prev_point # NoValue
                      THEN prev_cumul_dist_km + distance_3d(prev_point[1], point)
                      ELSE prev_cumul_dist_km
             t1 == [t EXCEPT !.list_lon = Append(@, point.longitude),
                             !.list_lat = Append(@, point.latitude),
                             !.list_ele_m = Append(@, point.elevation[1]),
                             !.list_cumul_dist_km = Append(@, cumul)]
         IN  append_points(t1, track_points, i + 1, has_started, cumul, Value(point),
                           Append(appended, TRUE))

append_track_to_gpx_track(t, track_points) ==
    LET has_started == Len(t.list_lon) > 0
        prev_cumul_dist_km == IF has_started
                              THEN t.list_cumul_dist_km[Len(t.list_cumul_dist_km)]
                              ELSE 0
    IN  append_points(t, track_points, 1, has_started, prev_cumul_dist_km, NoValue, <<>>)

-----------------------------------------------------------------------------
(* City poster image cache: city_poster_image_cache.py.  A float (a distance   *)
(* in km, a climb in m, a duration in s) is held as a whole number of tenths;  *)
(* an int is held as it is.  The text of an input field is the sequence of its *)
(* characters, <<>> being the empty string.                                    *)

\* the decimal digits of a literal
Digit ==
    "0" :> 0 @@ "1" :> 1 @@ "2" :> 2 @@ "3" :> 3 @@ "4" :> 4 @@
    "5" :> 5 @@ "6" :> 6 @@ "7" :> 7 @@ "8" :> 8 @@ "9" :> 9

IsDigits(s) == s # <<>> /\ \A i \in DOMAIN s : s[i] \in DOMAIN Digit

RECURSIVE DigitsValue(_)
DigitsValue(s) ==
    IF s = <<>> THEN 0
    ELSE 10 * DigitsValue(SubSeq(s, 1, Len(s) - 1)) + Digit[s[Len(s)]]

\* the sign of a literal, and the literal without its sign
Sign(s) == IF s # <<>> /\ s[1] = "-" THEN -1 ELSE 1

Unsigned(s) == IF s # <<>> /\ s[1] \in {"-", "+"} THEN Tail(s) ELSE s

\* int(x) of a float x: the fraction is cut off, towards zero
int_of_float(x) == IF x >= 0 THEN x \div 10 ELSE -((-x) \div 10)

\* int(s) of a string s: an optional sign and decimal digits, anything else is
\* a ValueError
int_of_str(s) ==
    IF IsDigits(Unsigned(s))
    THEN [err |-> "none", value |-> Sign(s) * DigitsValue(Unsigned(s))]
    ELSE [err |-> "ValueError", value |-> 0]

\* float(s) of a string s: an optional sign, digits, and an optional point with
\* digits on one side of it at least; the value in tenths (the literals of the
\* model have one decimal at most)
float_of_str(s) ==
    LET u == Unsigned(s)
        points == {i \in DOMAIN u : u[i] = "."}
    IN  IF IsDigits(u)
        THEN [err |-> "none", value |-> Sign(s) * 10 * DigitsValue(u)]
        ELSE IF Cardinality(points) = 1
        THEN LET i == CHOOSE j \in points : TRUE
                 whole == SubSeq(u, 1, i - 1)
                 decimals == SubSeq(u, i + 1, Len(u))
             IN  IF /\ whole = <<>> \/ IsDigits(whole)
                    /\ decimals = <<>> \/ IsDigits(decimals)
                    /\ whole # <<>> \/ decimals # <<>>
                 THEN [err |-> "none",
                       value |-> Sign(s) * (10 * DigitsValue(whole)
                                            + (IF decimals = <<>> THEN 0 ELSE Digit[decimals[1]]))]
                 ELSE [err |-> "ValueError", value |-> 0]
        ELSE [err |-> "ValueError", value |-> 0]

\* lines 47-59: the items of the stats panel; an item is its number and its unit
get_stats_items(dist_km_int, uphill_m_int, duration_s_float) ==
    (IF dist_km_int > 0 THEN <<[value |-> dist_km_int, unit |-> "km"]>> ELSE <<>>)
    \o (IF uphill_m_int > 0 THEN <<[value |-> uphill_m_int, unit |-> "m D+"]>> ELSE <<>>)
    \o (IF duration_s_float # NoValue /\ duration_s_float[1] > 0
        THEN <<[value |-> duration_s_float[1], unit |-> "timedelta"]>>
        ELSE <<>>)

\* lines 61-73: the stats text, as the list of its lines; a line is the list of
\* the items joined by " - "
build_stats_text(stats_items) ==
    IF Len(stats_items) = 0 THEN [err |-> "none", ret |-> << <<>> >>]
    ELSE IF Len(stats_items) = 1 THEN [err |-> "none", ret |-> << <<stats_items[1]>> >>]
    ELSE IF Len(stats_items) = 2
    THEN [err |-> "none", ret |-> << <<stats_items[1], stats_items[2]>> >>]
    ELSE IF Len(stats_items) = 3
    THEN [err |-> "none", ret |-> << <<stats_items[1], stats_items[2]>>, <<stats_items[3]>> >>]
    ELSE [err |-> "ValueError", ret |-> <<>>]

\* lines 90-112: CityPosterImageCache(...); get_stats_items gives three items at
\* most, so the ValueError of line 112 is never raised
CityPosterImageCache(stats_dist_km, stats_uphill_m, stats_duration_s, plotter, gpx_data) ==
    LET stats_items == get_stats_items(int_of_float(stats_dist_km),
                                       int_of_float(stats_uphill_m),
                                       stats_duration_s)
    IN  [stats_dist_km |-> stats_dist_km,
         stats_uphill_m |-> stats_uphill_m,
         stats_duration_s |-> stats_duration_s,
         last_stats_n_lines |-> IF Len(stats_items) <= 2 THEN 1 ELSE 2,
         plotter |-> plotter,
         gpx_data |-> gpx_data]

\* from_gpx_data without lines 156-157: last_stats_n_lines is left as the
\* constructor set it
from_gpx_data_lines_not_forced(gpx_data, paper_size, stats_nb_lines, populated) ==
    LET two_lines == \/ gpx_data.duration_s # NoValue /\ stats_nb_lines = NoValue
                     \/ stats_nb_lines # NoValue /\ stats_nb_lines[1] = 2
        layout == IF two_lines THEN "two_lines_stats" ELSE "default"
        poster == CityPosterImageCache(gpx_data.dist_km, gpx_data.uphill_m, gpx_data.duration_s,
                                       [layout |-> layout, paper_size |-> paper_size],
                                       gpx_data)
    IN  IF ~two_lines /\ stats_nb_lines # NoValue /\ stats_nb_lines[1] # 1
        THEN [err |-> "ValueError", ret |-> NoValue]
        ELSE IF ~populated
        THEN [err |-> "AcquisitionError", ret |-> NoValue]
        ELSE [err |-> "none", ret |-> Value(poster)]

\* lines 125-159: from_gpx_data.  populated tells whether
\* init_and_populate_drawing_figure returns the plotter or raises; the plotter
\* is the layout and the paper size it was built with.
from_gpx_data(gpx_data, paper_size, stats_nb_lines, populated) ==
    LET two_lines == \/ gpx_data.duration_s # NoValue /\ stats_nb_lines = NoValue
                     \/ stats_nb_lines # NoValue /\ stats_nb_lines[1] = 2
        layout == IF two_lines THEN "two_lines_stats" ELSE "default"
        poster == CityPosterImageCache(gpx_data.dist_km, gpx_data.uphill_m, gpx_data.duration_s,
                                       [layout |-> layout, paper_size |-> paper_size],
                                       gpx_data)
    IN  IF ~two_lines /\ stats_nb_lines # NoValue /\ stats_nb_lines[1] # 1
        THEN [err |-> "ValueError", ret |-> NoValue]
        ELSE IF ~populated
        THEN [err |-> "AcquisitionError", ret |-> NoValue]
        ELSE [err |-> "none",
              ret |-> Value(IF stats_nb_lines # NoValue
                            THEN [poster EXCEPT !.last_stats_n_lines = stats_nb_lines[1]]
                            ELSE poster)]

\* lines 161-197: update_drawing_data; ret is the pair of the cache and the
\* drawing data, built the cache the rebuild returned when there was one
update_drawing_data(self, title_txt, uphill_m, duration_s, dist_km, populated) ==
    LET dist_km_int == IF dist_km # <<>> THEN int_of_str(dist_km)
                       ELSE [err |-> "none", value |-> int_of_float(self.stats_dist_km)]
        uphill_m_int == IF uphill_m # <<>> THEN int_of_str(uphill_m)
                        ELSE [err |-> "none", value |-> int_of_float(self.stats_uphill_m)]
        stats_duration_s == IF duration_s # <<>>
                            THEN LET f == float_of_str(duration_s)
                                 IN  [err |-> f.err, value |-> Value(f.value)]
                            ELSE [err |-> "none", value |-> self.stats_duration_s]
        new_stats_items == get_stats_items(dist_km_int.value, uphill_m_int.value,
                                           stats_duration_s.value)
        new_stats_n_lines == IF Len(new_stats_items) <= 2 THEN 1 ELSE 2
        rebuild == new_stats_n_lines # self.last_stats_n_lines
        built == from_gpx_data(self.gpx_data, self.plotter.paper_size,
                               Value(new_stats_n_lines), populated)
        stats_text == build_stats_text(new_stats_items)
        failed(e) == [err |-> e, ret |-> NoValue, built |-> NoValue]
    IN  IF dist_km_int.err # "none" THEN failed(dist_km_int.err)
        ELSE IF uphill_m_int.err # "none" THEN failed(uphill_m_int.err)
        ELSE IF stats_duration_s.err # "none" THEN failed(stats_duration_s.err)
        ELSE IF rebuild /\ built.err # "none" THEN failed(built.err)
        ELSE IF stats_text.err # "none" THEN failed(stats_text.err)
        ELSE [err |-> "none",
              ret |-> Value([cache |-> IF rebuild THEN built.ret[1]
                                       ELSE [self EXCEPT !.last_stats_n_lines = new_stats_n_lines],
                             drawing_data |-> [title_txt |-> title_txt,
                                               stats_text |-> stats_text.ret]]),
              built |-> IF rebuild THEN built.ret ELSE NoValue]

-----------------------------------------------------------------------------
(* Inputs and initial states *)

Families == {"roads", "rivers", "city_pois"}

PrecisionNames == DOMAIN ROAD_PRECISION_LEVEL

\* the road_precision strings a caller passes: the four names and one that is
\* not a key of ROAD_PRECISION_LEVEL
PrecisionInputs == PrecisionNames \cup {"Ultra"}

AllRoadTypes == [i \in DOMAIN ROAD_TYPE_DATA |-> ROAD_TYPE_DATA[i].road_type]

\* the extents of the model, by their diagonal: full stream detail, the
\* transition, no stream
Diagonals == {1500, 6000, 12000}

EmptyDisk == [path \in Paths |-> NoFile]

\* a query that was prepared on an empty disk and launched at data version v
LaunchedOnEmptyDisk(prep, v) == launch_queries(prep.query, v)

\* the roads cache an earlier run left for a precision, at data version 0
CachedRoads(precision) ==
    LET prep == prepare_download_city_roads(NewOverpassQuery, EmptyDisk, precision)
    IN  process_city_roads(LaunchedOnEmptyDisk(prep, 0), EmptyDisk, prep.ret, precision)
            .disk[get_path(ROADS_CACHE)]

\* the rivers cache an earlier run left for the extent, at data version 0
CachedRivers(diagonal) ==
    LET prep == prepare_download_city_rivers(NewOverpassQuery, EmptyDisk, diagonal)
    IN  process_city_rivers(LaunchedOnEmptyDisk(prep, 0), EmptyDisk, diagonal)
            .disk[get_path(RIVERS_CACHE)]

\* the POI cache an earlier run left for the track, at data version 0
CachedCityPois(diagonal) ==
    LET prep == prepare_download_city_pois(NewOverpassQuery, EmptyDisk)
    IN  process_city_pois(LaunchedOnEmptyDisk(prep, 0), EmptyDisk, GpxTrackPoints, diagonal)
            .disk[get_path(CITY_POINTS_OF_INTEREST_CACHE)]

\* the forests cache an earlier run left for the extent, at data version 0
CachedForests ==
    LET prep == prepare_download_city_forests(NewOverpassQuery, EmptyDisk)
    IN  process_city_forests(LaunchedOnEmptyDisk(prep, 0), EmptyDisk)
            .disk[get_path(FORESTS_CACHE)]

NoArgs == [city_roads_downloaded |-> <<>>]

NoSample == [fn |-> "none"]

NoTrace == [read |-> {}, synthesized |-> FALSE, wrote |-> FALSE]

NoPrev == [road_precision |-> "Low", faithful |-> FALSE, outcome |-> "none", ret |-> None]

\* UiManagerCity(): no poster cache yet
UiManagerCity == [cache |-> NoValue]

\* the city page as city_page() builds it: the title "Title", the first paper
\* size, the three input fields empty, nothing notified, nothing drawn on the
\* plot
CityPage ==
    [title_button |-> "Title", paper_size_mode_toggle |-> "A4",
     uphill_button |-> <<>>, dist_km_button |-> <<>>, duration_s_button |-> <<>>,
     notified |-> NoValue, plot |-> NoValue]

InitRun ==
    /\ query = NewOverpassQuery
    /\ run = 0
    /\ pc = "idle"
    /\ err = "none"
    /\ road_precision = "Low"
    /\ prepared = <<>>
    /\ args = NoArgs
    /\ ret = None
    /\ trace = NoTrace
    /\ disk0 = disk
    /\ prev = NoPrev
    /\ calls = <<>>
    /\ gpx_track = GpxTrack
    /\ ui_manager = UiManagerCity
    /\ page = CityPage

\* the states the cache file of a family can be in when the caller starts
InitFiles(f, diagonal) ==
    {NoFile, CorruptFile} \cup
    CASE f = ROADS_CACHE -> {CachedRoads(p) : p \in PrecisionNames}
      [] f = RIVERS_CACHE -> {CachedRivers(diagonal)}
      [] f = CITY_POINTS_OF_INTEREST_CACHE -> {CachedCityPois(diagonal)}
      [] f = FORESTS_CACHE -> {CachedForests}

\* a caller runs the pipeline of one feature family, against the cache of one extent
Init ==
    /\ diagonal_m \in Diagonals
    /\ family \in Families
    /\ \E file \in InitFiles(family, diagonal_m) :
          disk = [EmptyDisk EXCEPT ![get_path(family)] = file]
    /\ InitRun
    /\ sample = NoSample

-----------------------------------------------------------------------------
(* The feature pipelines, one run after the other: a caller constructs a query *)
(* for one feature family, prepares, launches and processes.                   *)

\* the caller passed process_city_roads the list prepare_download_city_roads returned
Faithful == args.city_roads_downloaded = prepared

\* total_query = OverpassQuery()
NewQuery ==
    /\ pc \in {"idle", "done", "failed"}
    /\ run < MaxRuns
    /\ run' = run + 1
    /\ query' = NewOverpassQuery
    /\ pc' = "new"
    /\ err' = "none"
    /\ road_precision' = "Low"
    /\ prepared' = <<>>
    /\ args' = NoArgs
    /\ ret' = None
    /\ trace' = NoTrace
    /\ disk0' = disk
    /\ prev' = [road_precision |-> road_precision, faithful |-> Faithful,
                outcome |-> pc, ret |-> ret]
    /\ calls' = <<>>
    /\ UNCHANGED <<disk, family, diagonal_m, sample,
                   gpx_track, ui_manager, page>>

\* the outcome of a prepare function
Prepared(r, name) ==
    /\ query' = r.query
    /\ err' = r.err
    /\ pc' = IF r.err = "none" THEN "prepared" ELSE "failed"
    /\ calls' = Append(calls, name)
    /\ UNCHANGED <<disk, run, family, args, ret, trace, disk0, prev, diagonal_m, sample,
                   gpx_track, ui_manager, page>>

PrepareRoads ==
    /\ pc = "new" /\ family = "roads"
    /\ \E p \in PrecisionInputs :
          LET r == prepare_download_city_roads(query, disk, p)
          IN  /\ road_precision' = p
              /\ prepared' = IF r.err = "none" THEN r.ret ELSE <<>>
              /\ Prepared(r, "prepare_download_city_roads")

PrepareRivers ==
    /\ pc = "new" /\ family = "rivers"
    /\ Prepared(prepare_download_city_rivers(query, disk, diagonal_m),
                "prepare_download_city_rivers")
    /\ UNCHANGED <<road_precision, prepared>>

PreparePois ==
    /\ pc = "new" /\ family = "city_pois"
    /\ Prepared(prepare_download_city_pois(query, disk), "prepare_download_city_pois")
    /\ UNCHANGED <<road_precision, prepared>>

\* total_query.launch_queries()
Launch ==
    /\ pc = "prepared"
    /\ query' = launch_queries(query, run)
    /\ pc' = "launched"
    /\ calls' = Append(calls, "launch_queries")
    /\ UNCHANGED <<disk, run, family, err, road_precision, prepared, args, ret, trace,
                   disk0, prev, diagonal_m, sample,
                   gpx_track, ui_manager, page>>

\* the outcome of a process function
Processed(r, name) ==
    /\ query' = r.query
    /\ disk' = r.disk
    /\ err' = r.err
    /\ ret' = r.ret
    /\ pc' = IF r.err = "none" THEN "done" ELSE "failed"
    /\ calls' = Append(calls, name)
    /\ UNCHANGED <<run, family, road_precision, prepared, disk0, prev, diagonal_m, sample,
                   gpx_track, ui_manager, page>>

\* process_city_roads, with the list prepare returned or with a part of it
ProcessRoads ==
    /\ pc = "launched" /\ family = "roads"
    /\ \E dl \in SubSeqs(prepared) :
          /\ args' = [city_roads_downloaded |-> dl]
          /\ Processed(process_city_roads(query, disk, dl, road_precision),
                       "process_city_roads")
    /\ UNCHANGED trace

ProcessRivers ==
    /\ pc = "launched" /\ family = "rivers"
    /\ LET r == process_city_rivers(query, disk, diagonal_m)
       IN  /\ Processed(r, "process_city_rivers")
           /\ trace' = [read |-> r.read, synthesized |-> r.synthesized, wrote |-> r.wrote]
    /\ UNCHANGED args

ProcessPois ==
    /\ pc = "launched" /\ family = "city_pois"
    /\ LET r == process_city_pois(query, disk, GpxTrackPoints, diagonal_m)
       IN  /\ Processed(r, "process_city_pois")
           /\ trace' = [read |-> r.read, synthesized |-> r.synthesized, wrote |-> r.wrote]
    /\ UNCHANGED args

Next ==
    \/ NewQuery
    \/ PrepareRoads
    \/ PrepareRivers
    \/ PreparePois
    \/ Launch
    \/ ProcessRoads
    \/ ProcessRivers
    \/ ProcessPois

Spec == Init /\ [][Next]_vars

-----------------------------------------------------------------------------
(* The stream ramp on its own: two diagonals are drawn, the ramp is applied to *)
(* both.                                                                       *)

\* diagonals in metres, on both sides of and at the two thresholds
RampDiagonals ==
    {1, 1000, 1999, 2000, 2001, 3000, 6000, 9000, 9999, 10000, 10001, 30000}

InitRamp ==
    /\ family = "rivers"
    /\ disk = EmptyDisk
    /\ InitRun
    /\ \E d1 \in RampDiagonals, d2 \in RampDiagonals :
          /\ sample = [fn |-> "get_stream_visualization", applied |-> FALSE,
                       d1 |-> d1, d2 |-> d2]
          /\ diagonal_m = d1

ApplyRamp ==
    /\ sample.fn = "get_stream_visualization"
    /\ ~sample.applied
    /\ sample' = [fn |-> "get_stream_visualization", applied |-> TRUE,
                  d1 |-> sample.d1, d2 |-> sample.d2,
                  v1 |-> get_stream_visualization(sample.d1),
                  v2 |-> get_stream_visualization(sample.d2)]
    /\ UNCHANGED <<disk, query, run, family, pc, err, road_precision, prepared, args,
                   ret, trace, disk0, prev, calls, diagonal_m,
                   gpx_track, ui_manager, page>>

NextRamp == ApplyRamp

SpecRamp == InitRamp /\ [][NextRamp]_vars

-----------------------------------------------------------------------------
(* The POI selector on its own: an input is drawn for one of its functions,    *)
(* the function is applied to it.                                              *)

\* the tag keys of the inputs: three of basic evidence, three of naming
\* evidence, two of neither ("name" is not "name:")
ScoreKeys ==
    {<<"heritage", "">>, <<"source", ":name">>, <<"website", "">>,
     <<"name:", "fr">>, <<"alt_name", "">>, <<"short_name", "">>,
     <<"name", "">>, <<"tourism", "">>}

\* the values of the building and of the amenity tag of the inputs, None: no tag
BuildingValues == {None, "cathedral", "palace", "castle", "house"}

AmenityValues == {None, "theatre", "cafe"}

\* a dict of tags
Tags(keys, building, amenity) ==
    LET b == IF building = None THEN {} ELSE {<<"building", "">>}
        a == IF amenity = None THEN {} ELSE {<<"amenity", "">>}
    IN  [key \in keys \cup b \cup a |->
            IF key = <<"building", "">> THEN building
            ELSE IF key = <<"amenity", "">> THEN amenity
            ELSE "x"]

ScoreSamples ==
    {[fn |-> "get_importance_score", applied |-> FALSE, tags |-> Tags(keys, b, a)] :
        keys \in SUBSET ScoreKeys, b \in BuildingValues, a \in AmenityValues}

\* the importances of the inputs, around the tiers of the proximity filter
PoiImportances == {20, 30, 31, 70, 71, 80}

\* the distances to the track of the inputs, around the thresholds of the filter
PoiDistances == {149, 150, 499, 500, 700, 799, 800}

\* a candidate of one point, y metres off the first point of the track
CandidateAt(importance, y) ==
    CandidateCityPoi(<<"poi", importance, y>>, importance, << <<0, y>> >>)

\* the lists of at most n candidates of the given importances and distances
CandidateLists(importances, distances, n) ==
    UNION {[1..k -> {CandidateAt(i, y) : i \in importances, y \in distances}] : k \in 0..n}

FilterSamples ==
    {[fn |-> "filter_close_gpx", applied |-> FALSE, city_pois |-> l] :
        l \in CandidateLists(PoiImportances, PoiDistances, MaxFiltered)}

\* lists for the suppression and the truncation: ties of importance, points
\* 10, 20, 30, 370, 390 and 400 m apart (30 m is the threshold of the smallest
\* extent)
RankedLists == CandidateLists({20, 80}, {500, 510, 530, 900}, MaxRanked)

NmsSamples ==
    {[fn |-> "nms_city_pois", applied |-> FALSE, city_pois |-> l, diagonal |-> d] :
        l \in RankedLists, d \in Diagonals}

TakeSizes == {0, 1, 2, 6}

TakeSamples ==
    {[fn |-> "take_n_best", applied |-> FALSE, city_pois |-> l, n |-> n] :
        l \in RankedLists, n \in TakeSizes}

\* an element of a result: its name, its tags, its geometry on the grid of metres
Element(name, tags, lonlat) == [name |-> name, tags |-> tags, lonlat |-> lonlat]

\* ways around the track: their scores are 15, 12, 9, 8, 7, 6, 5, 5, None and
\* 10; Annexe is 10 m from Palais, Fort is far from the track
PoiPool ==
    LET fr == <<"name:", "fr">>
        alt == <<"alt_name", "">>
        short == <<"short_name", "">>
        heritage == <<"heritage", "">>
        source == <<"source", ":name">>
        website == <<"website", "">>
    IN  << Element("Palais", Tags({fr, alt, website}, "palace", None), << <<0, 100>> >>),
           Element("Annexe", Tags({fr}, "palace", None), << <<10, 100>> >>),
           Element("Dom", Tags({heritage, source, fr}, "cathedral", None), << <<0, -100>> >>),
           Element("Theatre", Tags({alt, heritage}, None, "theatre"), << <<400, 100>> >>),
           Element("Chateau", Tags({heritage, website, fr}, "castle", None),
                   << <<400, -100>> >>),
           Element("Musee", Tags({fr, alt, short}, None, None), << <<800, 100>> >>),
           Element("Halle", Tags({fr, alt, source}, None, None), << <<800, -100>> >>),
           Element("Tour", Tags({fr}, "castle", None), << <<940, 0>> >>),
           Element("Kiosk", Tags({<<"tourism", "">>, <<"name", "">>}, None, None),
                   << <<400, 10>> >>),
           Element("Fort", Tags({}, "palace", None), << <<2000, 2000>> >>) >>

SelectSamples ==
    {[fn |-> "process_city_pois", applied |-> FALSE, ways |-> ways, diagonal |-> d] :
        ways \in SubSeqs(PoiPool), d \in Diagonals}

PoiSamples ==
    ScoreSamples \cup FilterSamples \cup NmsSamples \cup TakeSamples \cup SelectSamples

InitPoi ==
    /\ family = "city_pois"
    /\ disk = EmptyDisk
    /\ InitRun
    /\ sample \in PoiSamples
    /\ diagonal_m = (IF "diagonal" \in DOMAIN sample THEN sample.diagonal ELSE 1500)

\* the function was applied to the input: the sample holds what it returned
Applied(out) ==
    /\ ~sample.applied
    /\ sample' = [x \in DOMAIN sample \cup {"out"} |->
                      IF x = "out" THEN out ELSE IF x = "applied" THEN TRUE ELSE sample[x]]
    /\ UNCHANGED <<disk, query, run, family, pc, err, road_precision, prepared, args,
                   ret, trace, disk0, prev, calls, diagonal_m,
                   gpx_track, ui_manager, page>>

ApplyScore ==
    /\ sample.fn = "get_importance_score"
    /\ Applied(get_importance_score(sample.tags))

ApplyFilter ==
    /\ sample.fn = "filter_close_gpx"
    /\ Applied(filter_close_gpx(sample.city_pois, GpxTrackPoints))

ApplyNms ==
    /\ sample.fn = "nms_city_pois"
    /\ Applied(nms_city_pois(sample.city_pois, sample.diagonal))

\* the suppression applied to what it returned, for the same extent
ApplyNmsAgain ==
    /\ sample.fn = "nms_city_pois"
    /\ sample.applied
    /\ "again" \notin DOMAIN sample
    /\ sample' = [x \in DOMAIN sample \cup {"again"} |->
                      IF x = "again" THEN nms_city_pois(sample.out, sample.diagonal)
                      ELSE sample[x]]
    /\ UNCHANGED <<disk, query, run, family, pc, err, road_precision, prepared, args,
                   ret, trace, disk0, prev, calls, diagonal_m,
                   gpx_track, ui_manager, page>>

ApplyTake ==
    /\ sample.fn = "take_n_best"
    /\ Applied(take_n_best(sample.city_pois, sample.n))

\* process_city_pois, lines 83-122, on the ways of a result
ApplySelect ==
    /\ sample.fn = "process_city_pois"
    /\ Applied(select_city_pois(candidates_of(sample.ways), GpxTrackPoints, sample.diagonal))

NextPoi ==
    \/ ApplyScore
    \/ ApplyFilter
    \/ ApplyNms
    \/ ApplyNmsAgain
    \/ ApplyTake
    \/ ApplySelect

SpecPoi == InitPoi /\ [][NextPoi]_vars

-----------------------------------------------------------------------------
(* Two roads pipelines at once, against the roads cache of one extent.  Each   *)
(* has its own query; query, pc, err, road_precision, prepared, ret and args   *)
(* hold one value per pipeline.  The cache file is not locked: while           *)
(* write_pickle writes it, the file is there and holds a part of the pickle    *)
(* only, and the other pipeline can look at it.                                *)

Pipelines == {1, 2}

\* a file that write_pickle has opened and not yet closed
HalfWrittenFile == CorruptFile

InitRace ==
    /\ family = "race"
    /\ \E file \in {NoFile} \cup {CachedRoads(p) : p \in PrecisionNames} :
          disk = [EmptyDisk EXCEPT ![get_path(ROADS_CACHE)] = file]
    /\ disk0 = disk
    /\ query = [p \in Pipelines |-> NewOverpassQuery]
    /\ pc = [p \in Pipelines |-> "new"]
    /\ err = [p \in Pipelines |-> "none"]
    /\ road_precision = [p \in Pipelines |-> "Low"]
    /\ prepared = [p \in Pipelines |-> <<>>]
    /\ ret = [p \in Pipelines |-> None]
    /\ args = [p \in Pipelines |-> NoArgs]
    /\ trace = NoTrace
    /\ run = 0
    /\ prev = NoPrev
    /\ calls = <<>>
    /\ diagonal_m = 1500
    /\ sample = NoSample
    /\ gpx_track = GpxTrack
    /\ ui_manager = UiManagerCity
    /\ page = CityPage

\* prepare_download_city_roads of pipeline p
RacePrepare(p) ==
    /\ pc[p] = "new"
    /\ \E precision \in PrecisionNames :
          LET r == prepare_download_city_roads(query[p], disk, precision)
          IN  /\ road_precision' = [road_precision EXCEPT ![p] = precision]
              /\ prepared' = [prepared EXCEPT ![p] = IF r.err = "none" THEN r.ret ELSE <<>>]
              /\ query' = [query EXCEPT ![p] = r.query]
              /\ err' = [err EXCEPT ![p] = r.err]
              /\ pc' = [pc EXCEPT ![p] = IF r.err = "none" THEN "prepared" ELSE "failed"]
    /\ UNCHANGED <<disk, run, family, args, ret, trace, disk0, prev, calls, diagonal_m,
                   sample,
                   gpx_track, ui_manager, page>>

\* launch_queries of pipeline p: its results are those of data version p
RaceLaunch(p) ==
    /\ pc[p] = "prepared"
    /\ query' = [query EXCEPT ![p] = launch_queries(query[p], p)]
    /\ pc' = [pc EXCEPT ![p] = "launched"]
    /\ UNCHANGED <<disk, run, family, err, road_precision, prepared, args, ret, trace,
                   disk0, prev, calls, diagonal_m, sample,
                   gpx_track, ui_manager, page>>

\* process_city_roads of pipeline p returns or raises
RaceProcessed(p, r) ==
    /\ query' = [query EXCEPT ![p] = r.query]
    /\ err' = [err EXCEPT ![p] = r.err]
    /\ ret' = [ret EXCEPT ![p] = r.ret]
    /\ pc' = [pc EXCEPT ![p] = IF r.err = "none" THEN "done" ELSE "failed"]

\* process_city_roads of pipeline p, with the list its prepare returned, up to
\* the moment write_pickle has opened the cache file; all of it when it does
\* not come to write_pickle
RaceProcessBegin(p) ==
    /\ pc[p] = "launched"
    /\ LET r == process_city_roads(query[p], disk, prepared[p], road_precision[p])
       IN  IF Len(prepared[p]) > 0 /\ r.err \in {"none", "KeyError"}
           THEN /\ disk' = [disk EXCEPT ![get_path(ROADS_CACHE)] = HalfWrittenFile]
                /\ args' = [args EXCEPT ![p] = r]
                /\ pc' = [pc EXCEPT ![p] = "writing"]
                /\ UNCHANGED <<query, err, ret>>
           ELSE /\ RaceProcessed(p, r)
                /\ UNCHANGED <<disk, args>>
    /\ UNCHANGED <<run, family, road_precision, prepared, trace, disk0, prev, calls,
                   diagonal_m, sample,
                   gpx_track, ui_manager, page>>

\* write_pickle of pipeline p closes the cache file, process_city_roads goes on
\* to its end
RaceProcessEnd(p) ==
    /\ pc[p] = "writing"
    /\ disk' = [disk EXCEPT ![get_path(ROADS_CACHE)] = args[p].disk[get_path(ROADS_CACHE)]]
    /\ trace' = [writer |-> p, file |-> args[p].disk[get_path(ROADS_CACHE)]]
    /\ RaceProcessed(p, args[p])
    /\ args' = [args EXCEPT ![p] = NoArgs]
    /\ UNCHANGED <<run, family, road_precision, prepared, disk0, prev, calls, diagonal_m,
                   sample,
                   gpx_track, ui_manager, page>>

NextRace ==
    \/ \E p \in Pipelines : RacePrepare(p)
    \/ \E p \in Pipelines : RaceLaunch(p)
    \/ \E p \in Pipelines : RaceProcessBegin(p)
    \/ \E p \in Pipelines : RaceProcessEnd(p)

SpecRace == InitRace /\ [][NextRace]_vars

-----------------------------------------------------------------------------
(* A GPX file is loaded: GpxTrack.load calls append_track_to_gpx_track on one  *)
(* GpxTrack for every segment of the file, one after the other.                *)

\* the points of the segments: two places 3 m apart, elevations 10 m, 14 m or
\* missing
TrackPointInputs ==
    {GPXTrackPoint(lon, 0, ele) : lon \in {0, 3}, ele \in {NoValue, Value(10), Value(14)}}

\* the segments: at most MaxPoints points
Segments == UNION {[1..k -> TrackPointInputs] : k \in 0..MaxPoints}

InitTrack ==
    /\ family = "gpx_track"
    /\ disk = EmptyDisk
    /\ InitRun
    /\ diagonal_m = 1500
    /\ sample = NoSample

\* append_track_to_gpx_track(gpx_track, segment.points); trace keeps the call:
\* the track before it, the points, and which of them were appended
AppendTrack ==
    /\ family = "gpx_track"
    /\ run < MaxSegments
    /\ \E track_points \in Segments :
          LET r == append_track_to_gpx_track(gpx_track, track_points)
          IN  /\ gpx_track' = r.gpx_track
              /\ trace' = [before |-> gpx_track, track_points |-> track_points,
                           appended |-> r.appended]
    /\ run' = run + 1
    /\ UNCHANGED <<disk, query, family, pc, err, road_precision, prepared, args, ret,
                   disk0, prev, calls, diagonal_m, sample, ui_manager, page>>

NextTrack == AppendTrack

SpecTrack == InitTrack /\ [][NextTrack]_vars

-----------------------------------------------------------------------------
(* The city page: ui/pages/city/page.py.  The user types into the three input  *)
(* fields, uploads GPX files, changes the paper size and presses Enter; every  *)
(* handler runs to its end before the next one starts.                         *)

\* CityAugmentedGpxData.from_path: the uploaded contents hold the data of a
\* track, or do not parse
from_path(list_gpx_path) ==
    IF list_gpx_path = NoValue THEN [err |-> "ValueError", ret |-> NoValue]
    ELSE [err |-> "none", ret |-> list_gpx_path]

\* city_poster_image_cache.py lines 117-121: from_gpx
from_gpx(list_gpx_path, paper_size, populated) ==
    LET gpx_data == from_path(list_gpx_path)
    IN  IF gpx_data.err # "none" THEN gpx_data
        ELSE from_gpx_data(gpx_data.ret[1], paper_size, NoValue, populated)

\* lines 40-43
process_files(list_b, new_paper_size, populated) == from_gpx(list_b, new_paper_size, populated)

\* lines 46-49
change_paper_size(gpx_data, new_paper_size, populated) ==
    from_gpx_data(gpx_data, new_paper_size, NoValue, populated)

\* run_cpu_bound: what the function raised in the other process comes back as
\* a SubprocessException that carries the message
run_cpu_bound(r) ==
    IF r.err # "none"
    THEN [err |-> "SubprocessException", original_message |-> r.err, ret |-> NoValue]
    ELSE [err |-> "none", original_message |-> "none", ret |-> r.ret]

\* the result of an update that did not reach update_drawing_data
NoUpdate == [err |-> "none", ret |-> NoValue, built |-> NoValue]

\* lines 152-163 and 171-174: update() returned r or raised; when it returned,
\* the manager holds the cache of r and update_done_callback draws the drawing
\* data of r with the plotter of that cache.  The plot holds what was drawn
\* last.
update_done_callback(manager, p, r) ==
    IF r.err # "none"
    THEN [err |-> r.err, ui_manager |-> manager, page |-> p, update |-> r]
    ELSE [err |-> "none",
          ui_manager |-> [manager EXCEPT !.cache = Value(r.ret[1].cache)],
          page |-> [p EXCEPT !.plot = Value([plotter |-> r.ret[1].cache.plotter,
                                             drawing_data |-> r.ret[1].drawing_data])],
          update |-> r]

\* lines 141-178: on_click_update()(): update() in the other thread, lines
\* 166-169 and 141-151, then the callback on its result
on_click_update(manager, p, populated) ==
    IF manager.cache = NoValue
    THEN [err |-> "AssertionError", ui_manager |-> manager, page |-> p,
          update |-> [NoUpdate EXCEPT !.err = "AssertionError"]]
    ELSE update_done_callback(manager, p,
                              update_drawing_data(manager.cache[1], p.title_button,
                                                  p.uphill_button, p.duration_s_button,
                                                  p.dist_km_button, populated))

\* the two branches of the try with the cache given up when processing fails
upload_processed_cache_dropped(manager, p, r, repopulated) ==
    IF r.err = "SubprocessException"
    THEN [err |-> "none", ui_manager |-> [manager EXCEPT !.cache = NoValue],
          page |-> [p EXCEPT !.notified = Value(r.original_message)],
          processed |-> r, updated |-> FALSE, update |-> NoUpdate]
    ELSE [processed |-> r, updated |-> TRUE]
         @@ on_click_update([manager EXCEPT !.cache = r.ret], p, repopulated)

\* lines 68-77: run_cpu_bound returned r or raised a SubprocessException
upload_processed(manager, p, r, repopulated) ==
    IF r.err = "SubprocessException"
    THEN [err |-> "none", ui_manager |-> manager,
          page |-> [p EXCEPT !.notified = Value(r.original_message)],
          processed |-> r, updated |-> FALSE, update |-> NoUpdate]
    ELSE [processed |-> r, updated |-> TRUE]
         @@ on_click_update([manager EXCEPT !.cache = r.ret], p, repopulated)

\* lines 64-77: _on_upload
on_upload(manager, p, contents, populated, repopulated) ==
    upload_processed(manager, p,
                     run_cpu_bound(process_files(contents, p.paper_size_mode_toggle, populated)),
                     repopulated)

\* lines 103-105: run_cpu_bound returned r or raised, and nothing catches it
paper_size_changed(manager, p, r, repopulated) ==
    IF r.err # "none"
    THEN [err |-> r.err, ui_manager |-> manager, page |-> p,
          processed |-> r, updated |-> FALSE, update |-> NoUpdate]
    ELSE [processed |-> r, updated |-> TRUE]
         @@ on_click_update([manager EXCEPT !.cache = r.ret], p, repopulated)

\* lines 99-105: on_paper_size_change; the toggle holds the new name already
on_paper_size_change(manager, p, populated, repopulated) ==
    IF manager.cache = NoValue
    THEN [err |-> "AssertionError", ui_manager |-> manager, page |-> p,
          processed |-> [err |-> "AssertionError", ret |-> NoValue],
          updated |-> FALSE, update |-> NoUpdate]
    ELSE paper_size_changed(manager, p,
                            run_cpu_bound(change_paper_size(manager.cache[1].gpx_data,
                                                            p.paper_size_mode_toggle, populated)),
                            repopulated)

\* the names of the paper sizes of the toggle
PaperSizeNames == {"A4", "A3"}

\* the tracks of the uploaded files: 0.5 km or 12.3 km, flat or 350.0 m of
\* climb, without a duration or with 3600.0 s
GpxDatas ==
    {[dist_km |-> d, uphill_m |-> u, duration_s |-> t] :
        d \in {5, 123}, u \in {0, 3500}, t \in {NoValue, Value(36000)}}

\* what the user types into a field: nothing, "0", "-5", "12" or "2.5"
EnteredTexts == {<<>>, <<"0">>, <<"-", "5">>, <<"1", "2">>, <<"2", ".", "5">>}

InputFields == {"uphill_button", "dist_km_button", "duration_s_button"}

\* the values stats_nb_lines is given: None, 1, 2 and a number that is neither
StatsNbLines == {NoValue, Value(1), Value(2), Value(3)}

-----------------------------------------------------------------------------
(* The poster cache on its own: posters are built by from_gpx_data and updated *)
(* by update_drawing_data, in any order and with any arguments; the cache the  *)
(* page holds is the poster returned last.                                     *)

InitPoster ==
    /\ family = "city_poster"
    /\ disk = EmptyDisk
    /\ InitRun
    /\ diagonal_m = 1500
    /\ sample = NoSample

\* the call returned r and left the poster cache; trace keeps the call
PosterCalled(call, cache, r) ==
    /\ family = "city_poster"
    /\ ui_manager' = [ui_manager EXCEPT !.cache = cache]
    /\ err' = r.err
    /\ trace' = call
    /\ UNCHANGED <<disk, query, family, run, pc, road_precision, prepared, args, ret,
                   disk0, prev, calls, diagonal_m, sample, gpx_track, page>>

\* CityPosterImageCache.from_gpx_data(gpx_data, paper_size, stats_nb_lines)
FromGpxData ==
    \E gpx_data \in GpxDatas, stats_nb_lines \in StatsNbLines, populated \in BOOLEAN :
        \E r \in {from_gpx_data(gpx_data, page.paper_size_mode_toggle, stats_nb_lines, populated)} :
            PosterCalled([op |-> "from_gpx_data", gpx_data |-> gpx_data,
                          stats_nb_lines |-> stats_nb_lines, err |-> r.err, built |-> r.ret],
                         IF r.err = "none" THEN r.ret ELSE ui_manager.cache,
                         r)

\* page.py lines 146-152: p_cache, drawing_data = c.update_drawing_data(...)
\* with the texts of the three fields, and ui_manager._cache = p_cache
UpdateDrawingData ==
    /\ ui_manager.cache # NoValue
    /\ \E texts \in [InputFields -> EnteredTexts], populated \in BOOLEAN :
          \E self \in {ui_manager.cache[1]} :
          \E r \in {update_drawing_data(self, page.title_button, texts["uphill_button"],
                                        texts["duration_s_button"], texts["dist_km_button"],
                                        populated)} :
              PosterCalled([op |-> "update_drawing_data", self |-> self,
                            uphill_m |-> texts["uphill_button"],
                            duration_s |-> texts["duration_s_button"],
                            dist_km |-> texts["dist_km_button"],
                            err |-> r.err, ret |-> r.ret, built |-> r.built],
                           IF r.err = "none" THEN Value(r.ret[1].cache) ELSE ui_manager.cache,
                           r)

NextPoster ==
    \/ FromGpxData
    \/ UpdateDrawingData

SpecPoster == InitPoster /\ [][NextPoster]_vars

-----------------------------------------------------------------------------
(* The city page handles one event after the other: an upload, a change of the *)
(* paper size, Enter in a field.  The fields hold what the user typed before   *)
(* the event.                                                                  *)

\* the tracks uploaded to the page: 12.3 km and 3600.0 s, flat or with 350.0 m
\* of climb
PageGpxDatas == {g \in GpxDatas : g.dist_km = 123 /\ g.duration_s # NoValue}

\* what an upload holds: files that do not parse, or the files of a track
UploadedContents == {NoValue} \cup {Value(g) : g \in PageGpxDatas}

\* what the user typed: nothing, or "0", "12" or "2.5" as the distance
PageTexts ==
    {[f \in InputFields |-> IF f = "dist_km_button" THEN text ELSE <<>>] :
        text \in {<<>>, <<"0">>, <<"1", "2">>, <<"2", ".", "5">>}}

\* the page with the three fields as the user left them before the event
Typed(p, texts) ==
    [p EXCEPT !.uphill_button = texts["uphill_button"],
              !.dist_km_button = texts["dist_km_button"],
              !.duration_s_button = texts["duration_s_button"]]

InitPage ==
    /\ family = "city_page"
    /\ disk = EmptyDisk
    /\ InitRun
    /\ diagonal_m = 1500
    /\ sample = NoSample

\* the handler of an event returned h; trace keeps the call and what the page
\* held and showed before it
PageHandled(op, h) ==
    /\ family = "city_page"
    /\ run < MaxEvents
    /\ run' = run + 1
    /\ ui_manager' = h.ui_manager
    /\ page' = h.page
    /\ err' = h.err
    /\ trace' = [op |-> op, before |-> ui_manager.cache, plot |-> page.plot,
                 processed |-> h.processed, updated |-> h.updated, update |-> h.update]
    /\ UNCHANGED <<disk, query, family, pc, road_precision, prepared, args, ret,
                   disk0, prev, calls, diagonal_m, sample, gpx_track>>

\* on_multi_upload or on_click_load_example: _on_upload(contents, msg)
OnUpload ==
    \E texts \in PageTexts, contents \in UploadedContents,
       populated \in BOOLEAN, repopulated \in BOOLEAN :
        \E h \in {on_upload(ui_manager, Typed(page, texts), contents, populated, repopulated)} :
            PageHandled("_on_upload", h)

\* the user picks another paper size
OnPaperSizeChange ==
    \E texts \in PageTexts,
       name \in PaperSizeNames \ {page.paper_size_mode_toggle},
       populated \in BOOLEAN, repopulated \in BOOLEAN :
        \E h \in {on_paper_size_change(ui_manager,
                                        [Typed(page, texts) EXCEPT !.paper_size_mode_toggle = name],
                                        populated, repopulated)} :
            PageHandled("on_paper_size_change", h)

\* the user presses Enter in a field
OnClickUpdate ==
    \E texts \in PageTexts, populated \in BOOLEAN :
        \E u \in {on_click_update(ui_manager, Typed(page, texts), populated)} :
            PageHandled("on_click_update",
                        [err |-> u.err, ui_manager |-> u.ui_manager, page |-> u.page,
                         processed |-> [err |-> "none", ret |-> NoValue],
                         updated |-> TRUE, update |-> u.update])

NextPage ==
    \/ OnUpload
    \/ OnPaperSizeChange
    \/ OnClickUpdate

SpecPage == InitPage /\ [][NextPage]_vars

-----------------------------------------------------------------------------
(* One poster build after the other: init_and_populate_drawing_figure, with    *)
(* the roads, the rivers and the forests on one query.  The road precision of  *)
(* the build is an input; process_city_roads is given the list                 *)
(* prepare_download_city_roads returned.                                       *)

\* the calls of init_and_populate_drawing_figure turned around: the roads are
\* processed before the query is launched
BuildOrderProcessEarly ==
    <<"prepare_download_city_roads", "prepare_download_city_rivers",
      "prepare_download_city_forests", "process_city_roads", "launch_queries",
      "process_city_rivers", "process_city_forests">>

\* lines 223-242: the calls of init_and_populate_drawing_figure, in program order
BuildOrder ==
    <<"prepare_download_city_roads", "prepare_download_city_rivers",
      "prepare_download_city_forests", "launch_queries", "process_city_roads",
      "process_city_rivers", "process_city_forests">>

\* the call at which the build stands, "populated" after the last one
BuildAt(i) == IF i <= Len(BuildOrder) THEN BuildOrder[i] ELSE "populated"

\* the call the build makes next
NextCall == BuildAt(Len(calls) + 1)

InitBuild ==
    /\ diagonal_m \in Diagonals
    /\ family = "build"
    /\ \E roads \in InitFiles(ROADS_CACHE, diagonal_m),
          rivers \in InitFiles(RIVERS_CACHE, diagonal_m),
          forests \in InitFiles(FORESTS_CACHE, diagonal_m) :
          disk = (get_path(ROADS_CACHE) :> roads) @@ (get_path(RIVERS_CACHE) :> rivers)
                 @@ (get_path(FORESTS_CACHE) :> forests) @@ EmptyDisk
    /\ InitRun
    /\ sample = NoSample

\* total_query = OverpassQuery()
BuildStart ==
    /\ family = "build"
    /\ pc \in {"idle", "populated", "failed"}
    /\ run < MaxRuns
    /\ run' = run + 1
    /\ query' = NewOverpassQuery
    /\ pc' = "building"
    /\ err' = "none"
    /\ \E p \in PrecisionNames : road_precision' = p
    /\ prepared' = <<>>
    /\ ret' = None
    /\ disk0' = disk
    /\ calls' = <<>>
    /\ UNCHANGED <<disk, family, args, trace, prev, diagonal_m, sample,
                   gpx_track, ui_manager, page>>

\* the outcome of one call of the build: an exception ends the build
BuildCalled(r, d) ==
    /\ query' = r.query
    /\ disk' = d
    /\ err' = r.err
    /\ calls' = Append(calls, NextCall)
    /\ pc' = IF r.err # "none" THEN "failed"
             ELSE IF Len(calls) + 1 = Len(BuildOrder) THEN "populated" ELSE "building"
    /\ UNCHANGED <<run, family, road_precision, args, trace, disk0, prev, diagonal_m,
                   sample,
                   gpx_track, ui_manager, page>>

BuildPrepareRoads ==
    /\ pc = "building" /\ NextCall = "prepare_download_city_roads"
    /\ LET r == prepare_download_city_roads(query, disk, road_precision)
       IN  /\ BuildCalled(r, disk)
           /\ prepared' = IF r.err = "none" THEN r.ret ELSE <<>>
    /\ UNCHANGED ret

BuildPrepareRivers ==
    /\ pc = "building" /\ NextCall = "prepare_download_city_rivers"
    /\ BuildCalled(prepare_download_city_rivers(query, disk, diagonal_m), disk)
    /\ UNCHANGED <<prepared, ret>>

BuildPrepareForests ==
    /\ pc = "building" /\ NextCall = "prepare_download_city_forests"
    /\ BuildCalled(prepare_download_city_forests(query, disk), disk)
    /\ UNCHANGED <<prepared, ret>>

BuildLaunch ==
    /\ pc = "building" /\ NextCall = "launch_queries"
    /\ BuildCalled([query |-> launch_queries(query, run), err |-> "none"], disk)
    /\ UNCHANGED <<prepared, ret>>

BuildProcessRoads ==
    /\ pc = "building" /\ NextCall = "process_city_roads"
    /\ LET r == process_city_roads(query, disk, prepared, road_precision)
       IN  /\ BuildCalled(r, r.disk)
           /\ ret' = r.ret
    /\ UNCHANGED prepared

BuildProcessRivers ==
    /\ pc = "building" /\ NextCall = "process_city_rivers"
    /\ LET r == process_city_rivers(query, disk, diagonal_m)
       IN  BuildCalled(r, r.disk)
    /\ UNCHANGED <<prepared, ret>>

BuildProcessForests ==
    /\ pc = "building" /\ NextCall = "process_city_forests"
    /\ LET r == process_city_forests(query, disk)
       IN  BuildCalled(r, r.disk)
    /\ UNCHANGED <<prepared, ret>>

NextBuild ==
    \/ BuildStart
    \/ BuildPrepareRoads
    \/ BuildPrepareRivers
    \/ BuildPrepareForests
    \/ BuildLaunch
    \/ BuildProcessRoads
    \/ BuildProcessRivers
    \/ BuildProcessForests

SpecBuild == InitBuild /\ [][NextBuild]_vars

-----------------------------------------------------------------------------
(* Claims on the feature pipelines, checked under Spec *)

\* the file of the cache of this family
CacheFile(d) == d[get_path(family)]

\* the dict a roads cache file holds; an absent file counts as an empty cache
CachedRoadsOf(d) ==
    IF d[get_path(ROADS_CACHE)].kind = "pickle" THEN d[get_path(ROADS_CACHE)].value ELSE <<>>

\* the road types a precision asks for, in the order of the table
RequestedRoads(precision) ==
    CASE precision = "Low" -> <<HIGHWAY>>
      [] precision = "Medium" -> <<HIGHWAY, SECONDARY_ROAD>>
      [] precision = "High" -> <<HIGHWAY, SECONDARY_ROAD, STREET>>
      [] precision = "Very High" -> <<HIGHWAY, SECONDARY_ROAD, STREET, ACCESS_ROAD>>

\* the name of the sub-query of a road type
RoadQueryName(road_type) ==
    CASE road_type = HIGHWAY -> "highway"
      [] road_type = SECONDARY_ROAD -> "secondary_roads"
      [] road_type = STREET -> "street"
      [] road_type = ACCESS_ROAD -> "access_roads"

Called(name) == \E i \in DOMAIN calls : calls[i] = name

\* prepare_download_city_roads has returned in this run
RoadsPrepared == family = "roads" /\ pc \in {"prepared", "launched"}

(* C1: prepare_download_city_roads returns the requested road types that are  *)
(* not keys of the roads cache of the extent (an absent file is an empty      *)
(* cache), in the order of the table, and the sub-queries it registers are    *)
(* exactly those of the road types it returns.                                *)
C1_PrepareRegistersMissing ==
    RoadsPrepared =>
        LET missing == SelectSeq(RequestedRoads(road_precision),
                                 LAMBDA t : t \notin DOMAIN CachedRoadsOf(disk0))
        IN  /\ prepared = missing
            /\ query.queries = {RoadQueryName(t) : t \in Elems(missing)}
            /\ (~isfile(disk0, get_path(ROADS_CACHE))
                    => prepared = RequestedRoads(road_precision))
            /\ (Elems(RequestedRoads(road_precision)) \subseteq DOMAIN CachedRoadsOf(disk0)
                    => query.queries = {})

\* Low was cached, High is requested: only the two road types between them
C1_Witness ==
    /\ RoadsPrepared
    /\ DOMAIN CachedRoadsOf(disk0) = {HIGHWAY}
    /\ road_precision = "High"
    /\ prepared = <<SECONDARY_ROAD, STREET>>

\* process_city_roads was called with a non-empty list and wrote the cache
RoadsMerged ==
    /\ family = "roads"
    /\ Called("process_city_roads")
    /\ args.city_roads_downloaded # <<>>
    /\ err \in {"none", "KeyError"}

(* C2: after process_city_roads has processed a non-empty list of downloaded  *)
(* road types, the roads cache holds the key-wise union: its keys are the     *)
(* keys cached before and the downloaded ones, a downloaded road type holds   *)
(* the ways of this run's result, any other keeps the value it had.           *)
C2_CacheIsUnion ==
    RoadsMerged =>
        LET old == CachedRoadsOf(disk0)
            new == CachedRoadsOf(disk)
            downloaded == Elems(args.city_roads_downloaded)
        IN  /\ disk[get_path(ROADS_CACHE)].kind = "pickle"
            /\ DOMAIN new = DOMAIN old \cup downloaded
            /\ \A t \in downloaded :
                   new[t] = [ways_of |-> RoadQueryName(t), version |-> run]
            /\ \A t \in DOMAIN old \ downloaded : new[t] = old[t]
            /\ (Faithful /\ DOMAIN old \subseteq Elems(RequestedRoads(road_precision))
                    => DOMAIN new = Elems(RequestedRoads(road_precision)))

\* Low was cached, a higher precision is processed: old and fresh data side by side
C2_Witness ==
    /\ RoadsMerged
    /\ Faithful
    /\ pc = "done"
    /\ DOMAIN CachedRoadsOf(disk0) = {HIGHWAY}
    /\ DOMAIN CachedRoadsOf(disk) = {HIGHWAY, SECONDARY_ROAD, STREET}
    /\ CachedRoadsOf(disk)[HIGHWAY].version < run

(* C3: when process_city_roads is given the list prepare returned, it returns *)
(* a dict whose keys are exactly the road types of the requested precision,   *)
(* with the values of the cache, and it never raises KeyError.                *)
C3_ReturnsRequestedOnly ==
    (family = "roads" /\ Called("process_city_roads") /\ Faithful) =>
        /\ err # "KeyError"
        /\ (pc = "done" =>
               /\ DOMAIN ret = Elems(RequestedRoads(road_precision))
               /\ \A t \in DOMAIN ret : ret[t] = CachedRoadsOf(disk)[t])

\* the cache holds the four road types, Low is requested
C3_Witness ==
    /\ family = "roads" /\ pc = "done" /\ Faithful
    /\ road_precision = "Low"
    /\ DOMAIN CachedRoadsOf(disk) = CityRoadType
    /\ DOMAIN ret = {HIGHWAY}

(* C4: process_city_roads called with an empty list when no roads cache file  *)
(* exists for the extent raises FileNotFoundError, writes nothing to the      *)
(* cache and returns nothing.                                                 *)
C4_MissingCacheError ==
    (/\ family = "roads"
     /\ Called("process_city_roads")
     /\ args.city_roads_downloaded = <<>>
     /\ ~isfile(disk0, get_path(ROADS_CACHE))) =>
        /\ pc = "failed"
        /\ err = "FileNotFoundError"
        /\ disk = disk0
        /\ ret = None

C4_Witness ==
    /\ family = "roads"
    /\ Called("process_city_roads")
    /\ args.city_roads_downloaded = <<>>
    /\ ~isfile(disk0, get_path(ROADS_CACHE))
    /\ err = "FileNotFoundError"

\* the sub-queries a family registers when it has no cache file
QueriesOfMiss ==
    CASE family = "roads" -> {RoadQueryName(t) : t \in Elems(RequestedRoads(road_precision))}
      [] family = "rivers" ->
            {RIVERS_RELATIONS_ARRAY_NAME, RIVERS_WAYS_ARRAY_NAME, RIVERS_LINE_WAYS_ARRAY_NAME}
            \cup (IF diagonal_m < MAX_DISTANCE THEN {STREAMS_LINE_WAYS_ARRAY_NAME} ELSE {})
      [] family = "city_pois" ->
            {CITY_POINTS_OF_INTEREST_WAYS_ARRAY_NAME,
             CITY_POINTS_OF_INTEREST_RELATIONS_ARRAY_NAME}

(* C5: a cache file that exists but cannot be unpickled is treated as a cache *)
(* miss: the run does not end with the error of the unreadable file, and      *)
(* prepare registers the sub-queries it registers when there is no file.      *)
C5_CorruptIsMiss ==
    (run > 0 /\ CacheFile(disk0) = CorruptFile) =>
        /\ err # "CorruptCacheError"
        /\ (pc \in {"prepared", "launched", "done"} => query.queries = QueriesOfMiss)

\* rivers or points of interest, with a cache file at prepare time
HitRun == family \in {"rivers", "city_pois"} /\ run > 0 /\ isfile(disk0, get_path(family))

(* C7: rivers and points of interest, with a cache file at prepare time:      *)
(* prepare registers the cache file and no sub-query, no request is sent, and *)
(* process returns the cached value, reads no sub-query result, runs no       *)
(* synthesis and does not write the cache.                                    *)
C7_CacheHitSkipsAll ==
    HitRun =>
        /\ query.queries = {}
        /\ query.requests = 0
        /\ (pc \in {"prepared", "launched", "done"} =>
               /\ DOMAIN query.cached = {family}
               /\ query.cached[family] = get_path(family))
        /\ trace = NoTrace
        /\ disk = disk0
        /\ (pc = "done" => ret = CacheFile(disk0).value)

C7_Witness ==
    /\ HitRun
    /\ family = "rivers"
    /\ pc = "done"
    /\ Len(ret) = 2

\* this run follows a completed run of the same pipeline with the same inputs
SecondRun ==
    /\ run > 1
    /\ prev.outcome = "done"
    /\ prev.faithful
    /\ pc \in {"prepared", "launched", "done"}
    /\ family = "roads" => prev.road_precision = road_precision

(* C8: a pipeline run twice in sequence with the same inputs: after the first *)
(* run the cache holds what it returned, and the second run registers no      *)
(* sub-query, sends no request and returns an equal value.                    *)
C8_SecondRunFromCache ==
    /\ (pc = "done" /\ Faithful) =>
           /\ CacheFile(disk).kind = "pickle"
           /\ IF family = "roads"
              THEN \A t \in DOMAIN ret : ret[t] = CacheFile(disk).value[t]
              ELSE ret = CacheFile(disk).value
    /\ SecondRun =>
           /\ query.queries = {}
           /\ query.requests = 0
           /\ (pc = "done" => ret = prev.ret)

\* the second run returns what the first run downloaded
C8_Witness ==
    /\ SecondRun
    /\ pc = "done"
    /\ run = 2
    /\ family = "roads"
    /\ \E t \in DOMAIN ret : ret[t].version = 1

(* C20: the road table lists HIGHWAY (0), SECONDARY_ROAD (1), STREET (2) and   *)
(* ACCESS_ROAD (3) in this order, which is the ascending order of priority,    *)
(* with distinct priorities and distinct query names; the condition asserted   *)
(* when the module is loaded holds, and the lists made by iterating over the   *)
(* table are in ascending order of priority.                                   *)
C20_RoadTableOrdered ==
    /\ ROAD_TYPE_DATA_is_sorted
    /\ [i \in DOMAIN ROAD_TYPE_DATA |->
           <<ROAD_TYPE_DATA[i].road_type, ROAD_TYPE_DATA[i].priority>>]
           = <<<<HIGHWAY, 0>>, <<SECONDARY_ROAD, 1>>, <<STREET, 2>>, <<ACCESS_ROAD, 3>>>>
    /\ \A i \in DOMAIN ROAD_TYPE_DATA, j \in DOMAIN ROAD_TYPE_DATA :
           i < j => /\ ROAD_TYPE_DATA[i].priority < ROAD_TYPE_DATA[j].priority
                    /\ ROAD_TYPE_DATA[i].query_name # ROAD_TYPE_DATA[j].query_name
                    /\ ROAD_TYPE_DATA[i].road_type # ROAD_TYPE_DATA[j].road_type
    /\ RoadsPrepared =>
           \A i \in DOMAIN prepared, j \in DOMAIN prepared :
               i < j => RoadTypeData(prepared[i]).priority < RoadTypeData(prepared[j]).priority

\* the whole table was iterated over: the four road types, in its order
C20_Witness ==
    /\ RoadsPrepared
    /\ road_precision = "Very High"
    /\ prepared = <<HIGHWAY, SECONDARY_ROAD, STREET, ACCESS_ROAD>>

C21_WitnessRejected ==
    /\ family = "roads"
    /\ road_precision \notin DOMAIN ROAD_PRECISION_LEVEL
    /\ err = "AssertionError"

(* C29: a caller that passes process_city_roads the list                     *)
(* prepare_download_city_roads returned on the same query never gets the       *)
(* FileNotFoundError of the missing cache: every precision asks for at least   *)
(* one road type, so prepare returns an empty list only when the cache file    *)
(* exists and after it has registered that file on the query.                  *)
C29_MissingCacheUnreachable ==
    family = "roads" =>
        /\ (RoadsPrepared /\ ~isfile(disk0, get_path(ROADS_CACHE))) => Len(prepared) >= 1
        /\ (RoadsPrepared /\ prepared = <<>>) =>
               /\ isfile(disk0, get_path(ROADS_CACHE))
               /\ is_cached(query, ROADS_CACHE)
               /\ get_cache_file(query, ROADS_CACHE) = get_path(ROADS_CACHE)
        /\ (Called("process_city_roads") /\ Faithful) => err # "FileNotFoundError"

\* prepare returned an empty list, process was given it and returned the roads
C29_Witness ==
    /\ family = "roads"
    /\ Called("process_city_roads")
    /\ Faithful
    /\ args.city_roads_downloaded = <<>>
    /\ pc = "done"
    /\ DOMAIN ret = Elems(RequestedRoads(road_precision))

\* the rivers pipeline found no cache file when it prepared
RiversMiss ==
    /\ family = "rivers"
    /\ run > 0
    /\ ~isfile(disk0, get_path(RIVERS_CACHE))
    /\ pc \in {"prepared", "launched", "done"}

\* the sub-queries the polygons of a layer were made from, in the order of the layer
SourcesOf(layer) ==
    [i \in DOMAIN layer.polygons.patches |-> layer.polygons.patches[i].result.array_name]

(* C11: on a rivers cache miss prepare registers the stream sub-query exactly  *)
(* when the ramp yields a positive width for the diagonal of the extent,       *)
(* process reads the stream result exactly when prepare registered it, and     *)
(* when it is read the streams are a second layer, made of the stream result   *)
(* only, with the alpha of the ramp, next to a rivers layer without streams.   *)
C11_StreamsIffRampPositive ==
    RiversMiss =>
        LET ramp == get_stream_visualization(diagonal_m)
            registered == STREAMS_LINE_WAYS_ARRAY_NAME \in query.queries
            read == STREAMS_LINE_WAYS_ARRAY_NAME \in trace.read
        IN  /\ registered <=> ramp.width.degrees_of_metres > 0
            /\ registered <=> diagonal_m < 10000
            /\ pc = "done" =>
                   /\ read <=> registered
                   /\ Len(ret) = (IF read THEN 2 ELSE 1)
                   /\ \A i \in DOMAIN SourcesOf(ret[1]) :
                          SourcesOf(ret[1])[i] # STREAMS_LINE_WAYS_ARRAY_NAME
                   /\ read =>
                          /\ SourcesOf(ret[2]) = <<STREAMS_LINE_WAYS_ARRAY_NAME>>
                          /\ ret[2].alpha = ramp.alpha
                          /\ ret[2].polygons.patches[1].width = ramp.width

\* an extent in the transition of the ramp: two layers, the second translucent
C11_Witness ==
    /\ RiversMiss
    /\ pc = "done"
    /\ diagonal_m = 6000
    /\ STREAMS_LINE_WAYS_ARRAY_NAME \in trace.read
    /\ Len(ret) = 2
    /\ ret[2].alpha = 4000 * 4000
    /\ ret[1].alpha = Float(1)

\* the first layer of a synthesized result, by what its polygons were made from
FirstLayerKinds ==
    [i \in DOMAIN ret[1].polygons.patches |-> ret[1].polygons.patches[i].polygon_of]

\* process_city_rivers synthesized its result in this run
RiversSynthesized == RiversMiss /\ pc = "done" /\ trace.synthesized

(* C12, as claimed: the first layer is the concatenation of the polygons of    *)
(* the center-lines, of the closed ways and of the relations, in this order,   *)
(* with opacity 1.0.                                                           *)
C12_LinesWaysRelations ==
    RiversSynthesized =>
        /\ FirstLayerKinds = <<"buffered_line", "closed_way", "relation">>
        /\ ret[1].alpha = Float(1)

(* C12, amended: the first layer is the concatenation of the polygons of the   *)
(* center-lines, of the relations and of the closed ways, in this order, each  *)
(* made from its own sub-query, the lines buffered at RIVER_LINE_WIDTH; the    *)
(* layer has opacity 1.0 and is the first element of the result.               *)
C12_LinesRelationsWays ==
    RiversSynthesized =>
        /\ Len(ret) >= 1
        /\ FirstLayerKinds = <<"buffered_line", "relation", "closed_way">>
        /\ SourcesOf(ret[1]) = <<RIVERS_LINE_WAYS_ARRAY_NAME, RIVERS_RELATIONS_ARRAY_NAME,
                                 RIVERS_WAYS_ARRAY_NAME>>
        /\ ret[1].polygons.patches[1].width = RIVER_LINE_WIDTH
        /\ ret[1].alpha = Float(1)

\* a result of one layer, of the three sources
C12_Witness ==
    /\ RiversSynthesized
    /\ diagonal_m = 12000
    /\ Len(ret) = 1
    /\ Len(ret[1].polygons.patches) = 3

-----------------------------------------------------------------------------
(* Claims on the stream ramp, checked under SpecRamp *)

\* the width in degrees of a stream of n / d metres
WidthOfMetres(n, d) == [degrees_of_metres |-> (64000000 \div d) * n]

(* C9: get_stream_visualization returns width 0 and alpha 0 from 10000 m on,  *)
(* the width of a 4 m stream and alpha 1.0 up to 2000 m, and in between       *)
(* alpha = factor and the width of 2 + 2 * factor metres, with                *)
(* factor = ((10000 - diagonal) / 8000)^2.                                    *)
C9_RampValues ==
    (sample.fn = "get_stream_visualization" /\ sample.applied) =>
        LET d == sample.d1
            v == sample.v1
            sq == (10000 - d) * (10000 - d)
        IN  /\ d >= 10000 => v.width = WidthOfMetres(0, 1) /\ v.alpha = 0
            /\ d <= 2000 => v.width = WidthOfMetres(4, 1) /\ v.alpha = 64000000
            /\ (2000 < d /\ d < 10000) =>
                   /\ v.alpha = sq
                   /\ v.width = WidthOfMetres(2 * 64000000 + 2 * sq, 64000000)

\* the two boundary values
C9_Witness ==
    /\ sample.fn = "get_stream_visualization" /\ sample.applied
    /\ sample.d1 = 10000 /\ sample.v1.alpha = 0
    /\ sample.d2 = 2000 /\ sample.v2.alpha = 64000000

(* C10: for two diagonals d1 <= d2, the width and the alpha of d1 are greater *)
(* than or equal to those of d2.                                              *)
C10_RampMonotone ==
    (sample.fn = "get_stream_visualization" /\ sample.applied /\ sample.d1 <= sample.d2) =>
        /\ sample.v1.width.degrees_of_metres >= sample.v2.width.degrees_of_metres
        /\ sample.v1.alpha >= sample.v2.alpha

\* across the two thresholds
C10_Witness ==
    /\ sample.fn = "get_stream_visualization" /\ sample.applied
    /\ sample.d1 = 2001 /\ sample.d2 = 9999
    /\ sample.v1.alpha > sample.v2.alpha
    /\ sample.v2.alpha > 0

-----------------------------------------------------------------------------
(* Claims on the POI selector, checked under SpecPoi *)

ScoreApplied == sample.fn = "get_importance_score" /\ sample.applied

(* C13: the score is 1 for every key of basic evidence, 2 for every key of     *)
(* naming evidence, plus the bonus of the building or the amenity; the         *)
(* function returns None below 5 and the total otherwise.  A palace with two   *)
(* naming tags scores at least 9; tags with nothing listed are discarded.      *)
C13_ScoreOfTags ==
    ScoreApplied =>
        LET tags == sample.tags
            building == IF <<"building", "">> \in DOMAIN tags THEN tags[<<"building", "">>]
                        ELSE None
            amenity == IF <<"amenity", "">> \in DOMAIN tags THEN tags[<<"amenity", "">>]
                       ELSE None
            basic == Cardinality({k \in DOMAIN tags : k[1] \in IMPORTANCE_BASIC_TAG_PATTERN})
            naming == Cardinality({k \in DOMAIN tags : k[1] \in IMPORTANCE_NAME_TAG_PATTERN})
            bonus == CASE building = "cathedral" -> 5
                       [] building # "cathedral" /\ amenity = "theatre" -> 5
                       [] building = "palace" /\ amenity # "theatre" -> 10
                       [] building = "castle" /\ amenity # "theatre" -> 3
                       [] OTHER -> 0
            total == basic + 2 * naming + bonus
        IN  /\ sample.out = (IF total < 5 THEN -1 ELSE total)
            /\ (building = "palace" /\ naming >= 2) => sample.out >= 9
            /\ (basic = 0 /\ naming = 0 /\ bonus = 0) => sample.out = -1

\* a palace that is a theatre too, with two naming tags: 9
C13_Witness ==
    /\ ScoreApplied
    /\ sample.tags = Tags({<<"name:", "fr">>, <<"alt_name", "">>, <<"tourism", "">>},
                          "palace", "theatre")
    /\ sample.out = 9

(* C30: the score holds at most one bonus, that of the first match among      *)
(* building = cathedral (5), amenity = theatre (5), building = palace (10),    *)
(* building = castle (3): a cathedral that is a theatre gets 5, a palace or a  *)
(* castle that is a theatre gets the 5 of the theatre; the score is None or    *)
(* a whole number from 5 on.                                                   *)
C30_OneBonusFirstMatch ==
    ScoreApplied =>
        LET tags == sample.tags
            building == tags_get(tags, <<"building", "">>)
            amenity == tags_get(tags, <<"amenity", "">>)
            evidence ==
                Cardinality({k \in DOMAIN tags : k[1] \in IMPORTANCE_BASIC_TAG_PATTERN})
                + 2 * Cardinality({k \in DOMAIN tags : k[1] \in IMPORTANCE_NAME_TAG_PATTERN})
            bonus == sample.out - evidence
        IN  /\ sample.out = -1 \/ sample.out >= 5
            /\ sample.out # -1 =>
                   /\ bonus \in {0, 3, 5, 10}
                   /\ (building = "cathedral" /\ amenity = "theatre") => bonus = 5
                   /\ building = "cathedral" => bonus = 5
                   /\ (building # "cathedral" /\ amenity = "theatre") => bonus = 5
                   /\ (building = "palace" /\ amenity # "theatre") => bonus = 10
                   /\ (building = "castle" /\ amenity # "theatre") => bonus = 3
                   /\ (building \notin {"cathedral", "palace", "castle"}
                          /\ amenity # "theatre") => bonus = 0
            /\ (building = "cathedral" /\ amenity = "theatre") => sample.out = evidence + 5

\* a cathedral that is a theatre, with one key of basic evidence: 6, not 11
C30_Witness ==
    /\ ScoreApplied
    /\ sample.tags = Tags({<<"heritage", "">>}, "cathedral", "theatre")
    /\ sample.out = 6

FilterApplied == sample.fn = "filter_close_gpx" /\ sample.applied

\* the claim's rule: the candidate, y metres off the track, is within the
\* threshold of its tier
WithinTier(city_poi) ==
    LET y == city_poi.poly_lonlat[1][2]
        importance == city_poi.importance
    IN  \/ importance > 70 /\ y < 800
        \/ 30 < importance /\ importance <= 70 /\ y < 500
        \/ importance <= 30 /\ y < 150

NmsApplied == sample.fn = "nms_city_pois" /\ sample.applied

(* C15: the suppression applied to what it returned, for the same extent,      *)
(* returns the same candidates in the same order.                              *)
C15_NmsIdempotent ==
    (NmsApplied /\ "again" \in DOMAIN sample) => sample.again = sample.out

\* a run that suppressed a candidate, then kept the two that were left
C15_Witness ==
    /\ NmsApplied
    /\ "again" \in DOMAIN sample
    /\ Len(sample.city_pois) = 3
    /\ Len(sample.out) = 2
    /\ sample.out[1].importance = sample.out[2].importance
    /\ sample.again = sample.out

\* the greatest importance of a non-empty list of candidates
MaxImportance(city_pois) ==
    CHOOSE m \in {city_pois[i].importance : i \in DOMAIN city_pois} :
        \A i \in DOMAIN city_pois : city_pois[i].importance <= m

(* C16: of a non-empty list the suppression keeps a candidate of the greatest  *)
(* importance, the first of them in the list, at the head of what it returns;  *)
(* of an empty list it returns an empty list.                                  *)
C16_NmsKeepsBest ==
    NmsApplied =>
        LET in == sample.city_pois
            out == sample.out
        IN  IF in = <<>> THEN out = <<>>
            ELSE /\ out # <<>>
                 /\ out[1].importance = MaxImportance(in)
                 /\ \E i \in DOMAIN in :
                        /\ in[i] = out[1]
                        /\ \A j \in 1..(i - 1) : in[j].importance < MaxImportance(in)

\* the best candidate comes last, 10 m from the others, under the widest threshold
C16_Witness ==
    /\ NmsApplied
    /\ sample.diagonal = 12000
    /\ sample.city_pois = <<CandidateAt(20, 500), CandidateAt(20, 510), CandidateAt(80, 510)>>
    /\ sample.out = <<CandidateAt(80, 510)>>

TakeApplied == sample.fn = "take_n_best" /\ sample.applied

\* two candidates are closer than 2 % of the diagonal of the extent
Closer(a, b, diagonal) ==
    LET dx == a.center_lonlat[1] - b.center_lonlat[1]
        dy == a.center_lonlat[2] - b.center_lonlat[2]
    IN  2500 * (dx * dx + dy * dy) < diagonal * diagonal

(* C24: in what the suppression returns no two candidates are closer than the  *)
(* threshold, 2 % of the diagonal of the extent, and every candidate it        *)
(* rejected is closer than the threshold to a candidate it kept whose          *)
(* importance is not less; a candidate exactly at the threshold of the kept    *)
(* ones is kept.                                                               *)
C24_NmsThreshold ==
    NmsApplied =>
        LET in == sample.city_pois
            out == sample.out
            d == sample.diagonal
        IN  /\ \A i \in DOMAIN out : \E k \in DOMAIN in : in[k] = out[i]
            /\ \A i \in DOMAIN out, j \in DOMAIN out : i # j => ~Closer(out[i], out[j], d)
            /\ \A k \in DOMAIN in :
                   (\A i \in DOMAIN out : out[i] # in[k]) =>
                       \E i \in DOMAIN out : /\ Closer(out[i], in[k], d)
                                             /\ out[i].importance >= in[k].importance

\* of three candidates 10 and 30 m from the best one, under a threshold of
\* 30 m, the one at 10 m is rejected and the one at 30 m is kept
C24_Witness ==
    /\ NmsApplied
    /\ sample.diagonal = 1500
    /\ sample.city_pois = <<CandidateAt(20, 510), CandidateAt(80, 500), CandidateAt(20, 530)>>
    /\ sample.out = <<CandidateAt(80, 500), CandidateAt(20, 530)>>

\* the candidate x is among those returned
Kept(out, x) == \E k \in DOMAIN out : out[k] = x

\* the place of the first occurrence of a candidate in a list
Pos(l, x) == CHOOSE i \in DOMAIN l : l[i] = x /\ \A j \in 1..(i - 1) : l[j] # x

\* the candidates of a list that have the importance m, in the order of the list
OfImportance(l, m) == SelectSeq(l, LAMBDA c : c.importance = m)

\* a is b with some of its elements left out
RECURSIVE IsSubSeq(_, _)
IsSubSeq(a, b) ==
    IF a = <<>> THEN TRUE
    ELSE IF b = <<>> THEN FALSE
    ELSE IF Head(a) = Head(b) THEN IsSubSeq(Tail(a), Tail(b))
    ELSE IsSubSeq(a, Tail(b))

\* out is in non-increasing order of importance, the candidates of equal
\* importance in the order they have in the input
StableDescending(in, out) ==
    /\ \A i \in 1..(Len(out) - 1) : out[i].importance >= out[i + 1].importance
    /\ \A m \in {20, 80} : IsSubSeq(OfImportance(out, m), OfImportance(in, m))

\* of the candidates of one importance, take_n_best takes the first of the input
TakenInInputOrder(in, out) ==
    \A m \in {20, 80} :
        LET taken == OfImportance(out, m)
        IN  taken = SubSeq(OfImportance(in, m), 1, Len(taken))

\* y comes before x in the order of the stable sort of the input
Precedes(in, y, x) ==
    \/ y.importance > x.importance
    \/ y.importance = x.importance /\ Pos(in, y) < Pos(in, x)

RankedApplied == NmsApplied \/ TakeApplied

(* C25, as claimed: the suppression and take_n_best return the candidates in   *)
(* non-increasing order of importance, those of equal importance in the order  *)
(* of the input, and of two candidates of equal importance closer than the     *)
(* threshold the suppression keeps the one that comes first in the input and   *)
(* rejects the other.                                                          *)
C25_FirstOfTiesKept ==
    /\ RankedApplied => StableDescending(sample.city_pois, sample.out)
    /\ TakeApplied => TakenInInputOrder(sample.city_pois, sample.out)
    /\ NmsApplied =>
           LET in == sample.city_pois
               out == sample.out
           IN  \A i \in DOMAIN in, j \in DOMAIN in :
                   (/\ i < j
                    /\ Pos(in, in[i]) = i
                    /\ Pos(in, in[j]) = j
                    /\ in[i].importance = in[j].importance
                    /\ Closer(in[i], in[j], sample.diagonal)) =>
                       /\ Kept(out, in[i])
                       /\ ~Kept(out, in[j])

(* C25, amended: the order is that of a stable sort by descending importance,  *)
(* and of two candidates of equal importance closer than the threshold the     *)
(* suppression never keeps both; it keeps the later one of the input only when *)
(* it rejected the earlier one for a candidate it kept, which comes before the *)
(* earlier one in the sorted order and is closer to it than the threshold.     *)
C25_StableTies ==
    /\ RankedApplied => StableDescending(sample.city_pois, sample.out)
    /\ TakeApplied => TakenInInputOrder(sample.city_pois, sample.out)
    /\ NmsApplied =>
           LET in == sample.city_pois
               out == sample.out
           IN  \A i \in DOMAIN in, j \in DOMAIN in :
                   (/\ i < j
                    /\ Pos(in, in[i]) = i
                    /\ Pos(in, in[j]) = j
                    /\ in[i].importance = in[j].importance
                    /\ Closer(in[i], in[j], sample.diagonal)) =>
                       /\ ~(Kept(out, in[i]) /\ Kept(out, in[j]))
                       /\ Kept(out, in[j]) =>
                              \E k \in DOMAIN out :
                                  /\ Closer(out[k], in[i], sample.diagonal)
                                  /\ Precedes(in, out[k], in[i])
                                  /\ ~Closer(out[k], in[j], sample.diagonal)

\* three candidates of one importance in a row, 10 and 20 m apart under a
\* threshold of 30 m: the second is rejected for the first, the third is kept
C25_Witness ==
    /\ NmsApplied
    /\ sample.diagonal = 1500
    /\ sample.city_pois = <<CandidateAt(20, 500), CandidateAt(20, 510), CandidateAt(20, 530)>>
    /\ sample.out = <<CandidateAt(20, 500), CandidateAt(20, 530)>>

SelectApplied == sample.fn = "process_city_pois" /\ sample.applied

\* the names of a list of candidates or points
NamesOf(l) == [i \in DOMAIN l |-> l[i].name]

(* C17: the points process_city_pois selects are the 6 best of what the        *)
(* suppression leaves of what the proximity filter leaves of the scored        *)
(* candidates: at most 6 points, as many as the suppression leaves up to 6,    *)
(* no two of them closer than the threshold of the suppression.  With Palais,  *)
(* its near-duplicate Annexe and five more ways, Annexe is suppressed and the  *)
(* least important way is among the 6.                                         *)
C17_ScoreFilterNmsTop6 ==
    SelectApplied =>
        LET scored == candidates_of(sample.ways)
            close == filter_close_gpx(scored, GpxTrackPoints)
            kept == nms_city_pois(close, sample.diagonal)
            out == sample.out
        IN  /\ Len(out) <= 6
            /\ Len(out) = (IF Len(kept) < 6 THEN Len(kept) ELSE 6)
            /\ NamesOf(out) = SubSeq(NamesOf(kept), 1, Len(out))
            /\ \A i \in DOMAIN out, j \in DOMAIN out :
                   i # j => (out[i].lon - out[j].lon) * (out[i].lon - out[j].lon)
                            + (out[i].lat - out[j].lat) * (out[i].lat - out[j].lat)
                                > (sample.diagonal * sample.diagonal - 1) \div 2500
            /\ (sample.ways = SubSeq(PoiPool, 1, 7) /\ sample.diagonal = 1500) =>
                   NamesOf(out) = <<"Palais", "Dom", "Theatre", "Chateau", "Musee", "Halle">>

\* seven ways that pass the filter, one a near-duplicate: six points, the least
\* important way among them
C17_Witness ==
    /\ SelectApplied
    /\ sample.ways = SubSeq(PoiPool, 1, 7)
    /\ sample.diagonal = 1500
    /\ Len(sample.out) = 6
    /\ sample.out[6].name = "Halle"

(* C18: take_n_best returns min(n, number of candidates) candidates, in        *)
(* descending order of importance, each of them a candidate of the input       *)
(* counted once, and no candidate left out is more important than one          *)
(* returned.                                                                   *)
C18_TakeNBest ==
    TakeApplied =>
        LET in == sample.city_pois
            out == sample.out
        IN  /\ Len(out) = (IF sample.n < Len(in) THEN sample.n ELSE Len(in))
            /\ \A i \in 1..(Len(out) - 1) : out[i].importance >= out[i + 1].importance
            /\ \E f \in [DOMAIN out -> DOMAIN in] :
                   /\ \A i \in DOMAIN out, j \in DOMAIN out : i # j => f[i] # f[j]
                   /\ \A i \in DOMAIN out : in[f[i]] = out[i]
                   /\ \A k \in DOMAIN in \ {f[i] : i \in DOMAIN out} :
                          \A i \in DOMAIN out : in[k].importance <= out[i].importance

\* the two best of three, the best of them last in the input
C18_Witness ==
    /\ TakeApplied
    /\ sample.n = 2
    /\ sample.city_pois = <<CandidateAt(20, 500), CandidateAt(20, 900), CandidateAt(80, 530)>>
    /\ sample.out = <<CandidateAt(80, 530), CandidateAt(20, 500)>>

-----------------------------------------------------------------------------
(* Claims on the GPX track, checked under SpecTrack *)

\* a call of append_track_to_gpx_track has returned
TrackAppended == family = "gpx_track" /\ run > 0

\* the four lists have one length and the cumulative distance does not decrease
TrackListsCoherent ==
    /\ Len(gpx_track.list_lon) = Len(gpx_track.list_lat)
    /\ Len(gpx_track.list_lon) = Len(gpx_track.list_ele_m)
    /\ Len(gpx_track.list_lon) = Len(gpx_track.list_cumul_dist_km)
    /\ \A k \in 1..(Len(gpx_track.list_cumul_dist_km) - 1) :
           gpx_track.list_cumul_dist_km[k] <= gpx_track.list_cumul_dist_km[k + 1]

\* the number of points of the call appended before its i-th point
AppendedBefore(i) == Cardinality({j \in 1..(i - 1) : trace.appended[j]})

(* C26: append_track_to_gpx_track leaves a point out only when its elevation   *)
(* is missing and the track has no point yet, the points appended earlier in   *)
(* the same call counted; a point with a missing elevation that comes when the *)
(* track has a point is appended with the elevation of the last point of the   *)
(* track.  After every call the four lists have the same length and the        *)
(* cumulative distance does not decrease along the track.                      *)
C26_SkipOnlyBeforeFirstPoint ==
    TrackAppended =>
        LET before == trace.before
            points == trace.track_points
            n0 == Len(before.list_lon)
        IN  /\ \A i \in DOMAIN points :
                   LET has_point == n0 + AppendedBefore(i) > 0
                       k == n0 + AppendedBefore(i) + 1
                   IN  /\ ~trace.appended[i] <=> (points[i].elevation = NoValue /\ ~has_point)
                       /\ (points[i].elevation = NoValue /\ has_point) =>
                              /\ trace.appended[i]
                              /\ gpx_track.list_ele_m[k] = gpx_track.list_ele_m[k - 1]
                       /\ (points[i].elevation # NoValue) =>
                              /\ trace.appended[i]
                              /\ gpx_track.list_ele_m[k] = points[i].elevation[1]
            /\ TrackListsCoherent

-----------------------------------------------------------------------------
(* Claims on the poster cache, checked under SpecPoster *)

\* the last call built a poster: from_gpx_data called on its own, or called by
\* update_drawing_data for another layout
PosterBuilt == family = "city_poster" /\ "built" \in DOMAIN trace /\ trace.built # NoValue

\* the number of lines of the stats panel of the layout of a plotter
LinesOfLayout(plotter) == IF plotter.layout = "two_lines_stats" THEN 2 ELSE 1

(* C27: every poster built by from_gpx_data has a last_stats_n_lines that is   *)
(* the number of lines of the layout it was built with: 2 with the two-line    *)
(* layout, 1 with the single-line layout, whatever the distance, the climb and *)
(* the duration of the GPX data and whatever stats_nb_lines.                   *)
C27_LastStatsLinesAgreeWithLayout ==
    PosterBuilt =>
        trace.built[1].last_stats_n_lines = LinesOfLayout(trace.built[1].plotter)

\* update_drawing_data was called last, and it returned
UpdateCalled == family = "city_poster" /\ "op" \in DOMAIN trace /\ trace.op = "update_drawing_data"

UpdateReturned == UpdateCalled /\ trace.err = "none"

\* the items of a stats text, line after line
ItemsOfText(stats_text) ==
    IF Len(stats_text) = 2 THEN stats_text[1] \o stats_text[2] ELSE stats_text[1]

\* the number the user means by a text, in tenths
EnteredNumber ==
    <<"0">> :> 0 @@ <<"-", "5">> :> -50 @@ <<"1", "2">> :> 120 @@ <<"2", ".", "5">> :> 25

(* C28: whatever calls came before, the cache update_drawing_data returns has  *)
(* a last_stats_n_lines of 1 or 2 that is the number of lines of the stats     *)
(* text of the call, 1 with two items at most and 2 with three; the poster is  *)
(* built again from the GPX data exactly when that number is not the           *)
(* last_stats_n_lines of the cache the call was made on; and the call raises a *)
(* ValueError only for a distance or a D+ that is no whole number, never in    *)
(* build_stats_text.                                                           *)
C28_LastStatsLinesFollowText ==
    /\ UpdateReturned =>
           LET cache == trace.ret[1].cache
               stats_text == trace.ret[1].drawing_data.stats_text
           IN  /\ cache.last_stats_n_lines \in {1, 2}
               /\ cache.last_stats_n_lines = Len(stats_text)
               /\ Len(stats_text) = (IF Len(ItemsOfText(stats_text)) <= 2 THEN 1 ELSE 2)
               /\ Len(ItemsOfText(stats_text)) <= 3
               /\ trace.built # NoValue
                      <=> cache.last_stats_n_lines # trace.self.last_stats_n_lines
               /\ trace.built # NoValue => cache = trace.built[1]
               /\ ui_manager.cache = Value(cache)
    /\ (UpdateCalled /\ trace.err = "ValueError") =>
           \E text \in {trace.dist_km, trace.uphill_m} :
               text # <<>> /\ EnteredNumber[text] % 10 # 0

\* a cache with two lines was updated to one line and the poster built again
C28_Witness ==
    /\ UpdateReturned
    /\ trace.self.last_stats_n_lines = 2
    /\ trace.built # NoValue
    /\ ui_manager.cache[1].last_stats_n_lines = 1
    /\ Len(ItemsOfText(trace.ret[1].drawing_data.stats_text)) = 2

\* the items with the unit the stats text of the last update should hold: text
\* is what the user typed, gpx_value what the cache holds from the GPX, whole
\* tells that the item shows a whole number
ExpectedItems(unit, text, gpx_value, whole) ==
    LET number == IF text = <<>> THEN gpx_value ELSE Value(EnteredNumber[text])
        shown == IF whole THEN number[1] \div 10 ELSE number[1]
    IN  IF number # NoValue /\ number[1] > 0 /\ shown > 0
        THEN {[value |-> shown, unit |-> unit]}
        ELSE {}

ShownItems(unit) ==
    {item \in Elems(ItemsOfText(trace.ret[1].drawing_data.stats_text)) : item.unit = unit}

(* C22: on the city page an entered value <= 0 leaves the item out of the      *)
(* stats text, an entered value > 0 is shown in place of the value of the GPX, *)
(* and an empty field shows the value of the GPX: for the distance, for D+ and *)
(* for the time, whenever the poster could be built.                           *)
C22_EnteredValuesOverride ==
    (UpdateCalled /\ trace.err # "AcquisitionError") =>
        /\ trace.err = "none"
        /\ ShownItems("km")
               = ExpectedItems("km", trace.dist_km, Value(trace.self.stats_dist_km), TRUE)
        /\ ShownItems("m D+")
               = ExpectedItems("m D+", trace.uphill_m, Value(trace.self.stats_uphill_m), TRUE)
        /\ ShownItems("timedelta")
               = ExpectedItems("timedelta", trace.duration_s, trace.self.stats_duration_s, FALSE)

-----------------------------------------------------------------------------
(* Claims on the city page, checked under SpecPage *)

\* the last event was an upload
Uploaded == family = "city_page" /\ "op" \in DOMAIN trace /\ trace.op = "_on_upload"

\* processing the uploaded files failed
ProcessingFailed == trace.processed.err = "SubprocessException"

(* C23: when processing the uploaded files fails the page notifies the error,  *)
(* holds the cache it held before, shows the plot it showed before and starts  *)
(* no update; when processing succeeds the update is started and the page      *)
(* holds the processed poster, as the update returned it when it returned.     *)
C23_FailedUploadKeepsPoster ==
    Uploaded =>
        /\ ProcessingFailed =>
               /\ page.notified = Value(trace.processed.original_message)
               /\ ui_manager.cache = trace.before
               /\ page.plot = trace.plot
               /\ ~trace.updated
        /\ ~ProcessingFailed =>
               /\ trace.updated
               /\ trace.processed.ret # NoValue
               /\ ui_manager.cache = (IF trace.update.err = "none"
                                      THEN Value(trace.update.ret[1].cache)
                                      ELSE trace.processed.ret)
               /\ ui_manager.cache[1].gpx_data = trace.processed.ret[1].gpx_data

\* an upload failed on a page that held and showed a poster
C23_Witness ==
    /\ Uploaded
    /\ ProcessingFailed
    /\ trace.before # NoValue
    /\ ui_manager.cache = trace.before
    /\ page.plot # NoValue

\* an upload succeeded and replaced the poster of another track
C23_WitnessReplaced ==
    /\ Uploaded
    /\ ~ProcessingFailed
    /\ trace.before # NoValue
    /\ ui_manager.cache[1].gpx_data # trace.before[1].gpx_data
    /\ page.plot # trace.plot

-----------------------------------------------------------------------------
(* Claims on two pipelines at once, checked under SpecRace *)

(* C19: two roads pipelines at once on the cache of one extent, whatever their *)
(* precisions and however their steps interleave: no pipeline fails, a         *)
(* pipeline whose process has returned was given exactly the road types of its *)
(* precision, and when no pipeline is writing the cache file is the one the    *)
(* last writer wrote.                                                          *)
C19_RaceBenign ==
    family = "race" =>
        /\ \A p \in Pipelines : pc[p] # "failed"
        /\ \A p \in Pipelines :
               pc[p] = "done" => DOMAIN ret[p] = Elems(RequestedRoads(road_precision[p]))
        /\ (\A p \in Pipelines : pc[p] # "writing") =>
               disk[get_path(ROADS_CACHE)] =
                   (IF "writer" \in DOMAIN trace THEN trace.file
                    ELSE disk0[get_path(ROADS_CACHE)])

-----------------------------------------------------------------------------
(* Claims on the poster build, checked under SpecBuild *)

IsPrepare(name) ==
    name \in {"prepare_download_city_roads", "prepare_download_city_rivers",
              "prepare_download_city_forests"}

IsProcess(name) ==
    name \in {"process_city_roads", "process_city_rivers", "process_city_forests"}

Launches == {i \in DOMAIN calls : calls[i] = "launch_queries"}

=============================================================================
